---------------------------- MODULE Spec2Model ----------------------------
(***************************************************************************)
(* The collect phase of librustc_typeck (collect.rs): the demand-driven,   *)
(* memoized, cycle-detecting conversion of the items of one crate.         *)
(*                                                                         *)
(* The crate is a set of nodes 1..NItems.  A node is a trait, a typed item *)
(* (type alias, fn, static, ...: everything convert_typed_item handles),   *)
(* an impl, or a type parameter.  deps[n] is what the source text of n     *)
(* refers to; what a reference means depends on the two kinds:             *)
(*   trait -> trait   supertrait bound             `trait A: B`            *)
(*   trait -> typed   type parameter default       `trait A<T = X>`        *)
(*   typed -> typed   type named in the signature  `type A = B`            *)
(*   typed -> trait   trait named in the signature `type A = Box<Tr>`      *)
(*   typed -> param   own parameter, used as `P::Assoc` in the signature   *)
(*   param -> trait   bound                        `P: Tr`                 *)
(*   param -> typed   type named in a bound        `P: Tr<X>`              *)
(*   param -> param   `Q::Assoc` named in a bound  `P: Tr<Q::Assoc>`       *)
(*   impl  -> typed   self type                    `impl .. for X`         *)
(*   impl  -> trait   implemented trait            `impl Tr for ..`        *)
(* The program runs on an explicit call stack `ctl`; one action is one     *)
(* step of the function on top of it.                                      *)
(***************************************************************************)
EXTENDS Integers, Sequences, FiniteSets, TLC

\* Bounds of the model.
NItems == 3
MaxEdges == 3
MaxAssoc == 3
MaxVariants == 4
\* The bounds written on one type parameter, the entries of one where clause.
MaxBounds == 2
MaxWhere == 1
\* ty::Disr is a u64; the model keeps words of DisrBits bits.
DisrBits == 10

Nodes == 1..NItems

VARIABLES
    kind,              \* hir: node -> "trait" | "typed" | "impl" | "param"
    deps,              \* hir: node -> set of nodes its source text names
    assoc,             \* hir: node -> sequence of associated item kinds (trait, impl)
    walk,              \* collect_item_types: next node visit_item is called for
    ctl,               \* call stack of the running pass (top is the last frame)
    ret,               \* result of the call that returned last
    stack,             \* CrateCtxt.stack: the AstConvRequests in progress
    tcache,            \* tcx.tcache: node -> "none" | "ok" | "err" (type scheme)
    trait_defs,        \* tcx.trait_defs
    super_predicates,  \* tcx.super_predicates: node -> NoSuper | Stored(trait nodes)
    predicates,        \* tcx.predicates: node -> NoPredicates | GenericPredicates(..)
    ty_param_defs,     \* tcx.ty_param_defs: node of a type parameter -> "none" | "def";
                       \* the Self parameter of a trait has the node of the trait
    diags,             \* diagnostics emitted to tcx.sess, in order
    ice,               \* an internal assertion failed (span_bug / assert!)
    nwrites,           \* instrumentation: cache -> node -> number of inserts
    ncompute,          \* instrumentation: node -> runs of the scheme / trait def computation
    converted,         \* top-level items convert_item has returned for, in order
    convlog,           \* associated items converted, in order: [c, i, k]
    repr_type,         \* hir: the representation type of the enum, "i8" | "u8"
    variants,          \* hir: the enum's variants, each the result of evaluating its disr_expr
    prev_disr,         \* convert_enum_def: Option<ty::Disr> of the previous variant
    disrs,             \* convert_enum_def: the discriminants of the variants converted
    adt_defs,          \* tcx.adt_defs: the discriminants interned, when some
    param_bounds,      \* hir: the bounds written inline on the type parameter T
    where_clause,      \* hir: the predicates of the where clause of T's generics
    sized_by_default,  \* the SizedByDefault compute_bounds is called with, "Yes" | "No"
    lang_items,        \* tcx.lang_items: the lang items the crates define
    ast_generics,      \* hir: the hir::Generics of the declaration under conversion
    base_generics,     \* the ty::Generics of the container of the fn or method
    result_generics,   \* the ty::Generics ty_generics returned, when some
    object_lifetime_default,  \* the ty::ObjectLifetimeDefault computed for T
    result_predicates, \* the predicates ty_generic_predicates returned, when some
    impl_def,          \* hir: the impl whose parameters are checked
    impl_step,         \* convert_item for the impl: the part that runs next
    control,           \* CompileController: entry point -> [stop, run_callback_on_error]
    err_count,         \* sess.err_count()
    phase,             \* compile_input: the part that runs next
    ran,               \* the phases run and the callbacks called, in order
    analysis_result,   \* the CompileResult phase_3_run_analysis_passes hands to f
    analysis_errs,     \* instrumentation: sess.err_count() when the analysis passes ended
    compile_result     \* what compile_input returned

vars == << kind, deps, assoc, walk, ctl, ret, stack, tcache, trait_defs,
           super_predicates, predicates, ty_param_defs, diags, ice, nwrites, ncompute,
           converted, convlog, repr_type, variants, prev_disr, disrs, adt_defs,
           param_bounds, where_clause, sized_by_default, lang_items,
           ast_generics, base_generics, result_generics,
           object_lifetime_default, result_predicates, impl_def, impl_step, control, err_count, phase,
           ran, analysis_result, analysis_errs, compile_result >>

hir == << kind, deps, assoc, repr_type, variants, param_bounds, where_clause,
         sized_by_default, lang_items, ast_generics, base_generics, impl_def, control >>

\* The state of compile_input.
drv == << err_count, phase, ran, analysis_result, analysis_errs, compile_result >>

\* The state of the functions that are checked on their own inputs.
fnvars == << prev_disr, disrs, adt_defs, object_lifetime_default,
            result_predicates, result_generics, impl_step, err_count, phase, ran, analysis_result,
            analysis_errs, compile_result >>

\* What the conversion of the generics of one declaration produces.
generics_out == << object_lifetime_default, result_predicates, result_generics >>

\* The state of the pass over the crate, the diagnostics apart.
passvars == << walk, ctl, ret, stack, tcache, trait_defs, super_predicates,
               predicates, ty_param_defs, ice, nwrites, ncompute, converted, convlog >>

----------------------------------------------------------------------------
\* Helpers on sets and sequences.

RECURSIVE SortedSeq(_)
SortedSeq(S) ==
    IF S = {} THEN << >>
    ELSE LET m == CHOOSE x \in S : \A y \in S : x <= y
         IN << m >> \o SortedSeq(S \ {m})

RECURSIVE SetsUpTo(_, _)
SetsUpTo(U, k) ==
    IF k = 0 THEN { {} }
    ELSE LET S == SetsUpTo(U, k - 1)
         IN S \cup { s \cup {e} : s \in S, e \in U }

RECURSIVE SeqsUpTo(_, _)
SeqsUpTo(U, k) ==
    IF k = 0 THEN { << >> }
    ELSE LET S == SeqsUpTo(U, k - 1)
         IN S \cup { Append(s, e) : s \in S, e \in U }

Range(s) == { s[i] : i \in 1..Len(s) }

Top == ctl[Len(ctl)]
Below == SubSeq(ctl, 1, Len(ctl) - 1)

----------------------------------------------------------------------------
\* The crate under compilation (the HIR the pass reads; it never changes).

Kinds == { "trait", "typed", "impl", "param" }
\* The associated items of a trait or an impl.  "MethodSelf" is a method whose
\* signature names `Self::T`, an associated type of the container.
AssocKinds == { "Const", "Type", "Method", "MethodSelf" }
Methods == { "Method", "MethodSelf" }

\* What a reference from a to b can be, by the kinds of a and b (see the
\* module comment).  Nothing refers to an impl.
ValidEdge(kd, a, b) ==
    /\ kd[b] # "impl"
    /\ kd[a] \in { "trait", "impl" } => kd[b] # "param"

DepsOf(E, a) == { e[2] : e \in { x \in E : x[1] = a } }

\* The parameters of item x: those its signature names and those their
\* bounds name.  A parameter belongs to one item's hir::Generics.
RECURSIVE ParamClosure(_, _, _)
ParamClosure(kd, dp, S) ==
    LET T == S \cup { q \in Nodes : kd[q] = "param" /\ \E p \in S : q \in dp[p] }
    IN IF T = S THEN S ELSE ParamClosure(kd, dp, T)

ParamsOf(kd, dp, x) == ParamClosure(kd, dp, { p \in dp[x] : kd[p] = "param" })

WellFormedCrate(kd, dp) ==
    /\ \A a \in Nodes : \A b \in dp[a] : ValidEdge(kd, a, b)
    \* `impl Tr for X` names at most one trait
    /\ \A a \in Nodes :
          kd[a] = "impl" => Cardinality({ b \in dp[a] : kd[b] = "trait" }) <= 1
    \* a type parameter is declared by exactly one item
    /\ \A p \in Nodes :
          kd[p] = "param" =>
             Cardinality({ x \in Nodes : kd[x] = "typed" /\ p \in ParamsOf(kd, dp, x) }) = 1
    \* node ids follow the source: the parameters of an item come right after it
    /\ \A p \in Nodes :
          kd[p] = "param" =>
             \E x \in 1..(p - 1) :
                /\ kd[x] = "typed"
                /\ \A m \in (x + 1)..p : kd[m] = "param" /\ m \in ParamsOf(kd, dp, x)

NoAssoc == [ n \in Nodes |-> << >> ]

\* visit_all_items_in_krate visits the items (not the type parameters) in
\* the order of their ids.
krate == SortedSeq({ n \in Nodes : kind[n] # "param" })

\* hir::ItemTrait supertraits, sorted the way compute_bounds leaves them
Supers(t) == { d \in deps[t] : kind[d] = "trait" }
\* defaults of the trait's type parameters
Defaults(t) == { d \in deps[t] : kind[d] # "trait" }

----------------------------------------------------------------------------
\* Requests, frames and results.

Req(k, id) == [ k |-> k, id |-> id ]
NoReq == Req("", 0)

\* A reference to the type parameter `Self` of trait t, whose node id is the
\* node id of the trait.
SelfOf(t) == NItems + t

\* The AstConv method astconv calls for a reference to node d
\* (get_item_type_scheme, get_trait_def, get_type_parameter_bounds).
ReqFor(d) ==
    CASE d > NItems -> Req("GetTypeParameterBounds", d - NItems)
      [] kind[d] = "typed" -> Req("GetItemTypeScheme", d)
      [] kind[d] = "trait" -> Req("GetTraitDef", d)
      [] kind[d] = "param" -> Req("GetTypeParameterBounds", d)
      [] OTHER -> NoReq

Frame(fn, id, ph, todo) ==
    [ fn |-> fn, id |-> id, ph |-> ph, todo |-> todo, wait |-> FALSE,
      acc |-> "ok", req |-> NoReq, saved |-> << >> ]

Ok(v) == [ r |-> "Ok", v |-> v ]
Err == [ r |-> "Err", v |-> "err" ]
NoRet == [ r |-> "none", v |-> "unit" ]

\* An entry of tcx.super_predicates: absent, or the def ids of the bounds.
NoSuper == [ some |-> FALSE, ids |-> {} ]
Stored(S) == [ some |-> TRUE, ids |-> S ]

\* An entry of tcx.predicates: absent, or the predicates, of which the model
\* keeps those of SelfSpace: the def ids of the traits Self is bound by.
NoPredicates == [ some |-> FALSE, selfspace |-> << >> ]
GenericPredicates(selfspace) == [ some |-> TRUE, selfspace |-> selfspace ]

Running == ice = "none" /\ ctl # << >>

caches == << tcache, trait_defs, super_predicates, predicates, ty_param_defs >>

Bump(cache, n) == [ nwrites EXCEPT ![cache][n] = @ + 1 ]

----------------------------------------------------------------------------
\* collect_item_types and the visitor.

\* collect_item_types: the CrateCtxt is new, the caches of tcx hold nothing
\* about the local crate.
PassStart ==
    /\ walk = 1
    /\ ctl = << >>
    /\ ret = NoRet
    /\ stack = << >>
    /\ tcache = [ n \in Nodes |-> "none" ]
    /\ trait_defs = [ n \in Nodes |-> "none" ]
    /\ super_predicates = [ n \in Nodes |-> NoSuper ]
    /\ predicates = [ n \in Nodes |-> NoPredicates ]
    /\ ty_param_defs = [ n \in Nodes |-> "none" ]
    /\ diags = << >>
    /\ ice = "none"
    /\ nwrites = [ c \in { "tcache", "trait_defs", "super_predicates", "predicates",
                            "ty_param_defs" }
                     |-> [ n \in Nodes |-> 0 ] ]
    /\ ncompute = [ n \in Nodes |-> 0 ]
    /\ converted = << >>
    /\ convlog = << >>

\* The crate has no enum.
NoEnum ==
    /\ repr_type = "i8"
    /\ variants = << >>
    /\ prev_disr = [ some |-> FALSE, v |-> 0 ]
    /\ disrs = << >>
    /\ adt_defs = [ some |-> FALSE, v |-> << >> ]

\* The lifetime names a bound can be written with.
Lifetimes == { "'a", "'static" }

\* ty::Region, and the value of the places that hold none.
ReStatic == [ r |-> "ReStatic", name |-> "" ]
ReEarlyBound(name) == [ r |-> "ReEarlyBound", name |-> name ]
NoRegion == [ r |-> "none", name |-> "" ]

\* astconv::ast_region_to_region: the region a lifetime name resolves to.
ast_region_to_region(l) == IF l = "'static" THEN ReStatic ELSE ReEarlyBound(l)

\* ty::ObjectLifetimeDefault.
Ambiguous == [ d |-> "Ambiguous", r |-> NoRegion ]
BaseDefault == [ d |-> "BaseDefault", r |-> NoRegion ]
Specific(r) == [ d |-> "Specific", r |-> r ]

\* hir::TyParamBound: a trait (def id, type argument) or a lifetime.
TraitTyParamBound(id, arg) == [ k |-> "Trait", id |-> id, arg |-> arg, l |-> "" ]
RegionTyParamBound(l) == [ k |-> "Region", id |-> 0, arg |-> 0, l |-> l ]
\* A trait with hir::TraitBoundModifier::Maybe: the relaxation `?Trait`.
MaybeTraitBound(id) == [ k |-> "Maybe", id |-> id, arg |-> 0, l |-> "" ]

\* hir::Ty as the bounded type of a where predicate: the path's resolution,
\* a type parameter and the number of segments left unresolved.
TyPath(id, depth) == [ id |-> id, depth |-> depth ]

\* hir::WherePredicate.
BoundPredicate(bound_lifetimes, bounded_ty, bounds) ==
    [ k |-> "Bound", bound_lifetimes |-> bound_lifetimes, bounded_ty |-> bounded_ty,
      lifetime |-> "", bounds |-> bounds ]
RegionPredicate(lifetime, bounds) ==
    [ k |-> "Region", bound_lifetimes |-> << >>, bounded_ty |-> TyPath("", 0),
      lifetime |-> lifetime, bounds |-> bounds ]
EqPredicate ==
    [ k |-> "Eq", bound_lifetimes |-> << >>, bounded_ty |-> TyPath("", 0),
      lifetime |-> "", bounds |-> << >> ]

\* hir::Generics: the lifetime parameters, each early bound or not, and the
\* type parameters with their inline bounds.
Generics(lifetimes, ty_params) == [ lifetimes |-> lifetimes, ty_params |-> ty_params ]
LifetimeDef(name, early) == [ name |-> name, early |-> early ]
TyParam(name, bounds) == [ name |-> name, bounds |-> bounds ]

\* ty::Generics: the definitions of the type and of the region parameters
\* of each ParamSpace.
ParamSpaces == { "SelfSpace", "TypeSpace", "FnSpace" }
GenericsEmpty ==
    [ types |-> [ sp \in ParamSpaces |-> << >> ], regions |-> [ sp \in ParamSpaces |-> << >> ] ]
\* ty::TypeParameterDef and ty::RegionParameterDef: space, index and name.
TypeParameterDef(space, index, name) == [ space |-> space, index |-> index, name |-> name ]
RegionParameterDef(space, index, name) == [ space |-> space, index |-> index, name |-> name ]

\* No generics are under conversion on their own.
NoTyGenerics ==
    /\ ast_generics = Generics(<< >>, << >>)
    /\ base_generics = GenericsEmpty
    /\ result_generics = [ some |-> FALSE, v |-> GenericsEmpty ]

\* The bounds are those of a type parameter, in a crate that has the lang
\* item Sized.
SizedDefaults ==
    /\ sized_by_default = "Yes"
    /\ lang_items = { "sized" }

\* The generics under conversion have no type parameter.
NoGenerics ==
    /\ param_bounds = << >>
    /\ where_clause = << >>
    /\ SizedDefaults
    /\ NoTyGenerics
    /\ object_lifetime_default = [ some |-> FALSE, v |-> BaseDefault ]
    /\ result_predicates = [ some |-> FALSE, v |-> << >> ]

\* ctp::Parameter: a type parameter or an early-bound region of TypeSpace.
ParamType(idx, name) == [ p |-> "Type", idx |-> idx, name |-> name ]
ParamRegion(idx, name) == [ p |-> "Region", idx |-> idx, name |-> name ]

\* A type, as far as the parameters in it matter: those that occur outside
\* every projection and those that occur only inside one.
Ty(direct, projected) == [ direct |-> direct, projected |-> projected ]

\* Option<ty::TraitRef> of an impl: the parameters in the trait reference.
NoTraitRef == [ some |-> FALSE, ty |-> Ty({}, {}) ]
TraitRef(ty) == [ some |-> TRUE, ty |-> ty ]

\* session::CompileResult = Result<(), usize>.
CompileOk == [ r |-> "Ok", n |-> 0 ]
CompileErr(n) == [ r |-> "Err", n |-> n ]
NoResult == [ r |-> "none", n |-> 0 ]

\* The result phase_3_run_analysis_passes calls f with; `discarded`: the call
\* is the one of try_with_f!, which drops what f returns and returns Err(x).
AnalysisResult(res, discarded) == [ r |-> res.r, n |-> res.n, discarded |-> discarded ]

\* The entry points of the CompileController.
EntryPoints == { "after_parse", "after_expand", "after_write_deps", "after_analysis",
                 "after_llvm" }

\* PhaseController::basic(): stop is Compilation::Continue.
PhaseControllerBasic == [ stop |-> FALSE, run_callback_on_error |-> FALSE ]

\* compile_input has not been called.
NoDriver ==
    /\ control = [ p \in EntryPoints |-> PhaseControllerBasic ]
    /\ err_count = 0
    /\ phase = "none"
    /\ ran = << >>
    /\ analysis_result = AnalysisResult(NoResult, FALSE)
    /\ analysis_errs = [ some |-> FALSE, v |-> 0 ]
    /\ compile_result = NoResult

\* No impl is under conversion.
NoImpl ==
    /\ impl_def = [ self_ty |-> Ty({}, {}), trait_ref |-> NoTraitRef,
                    predicates |-> << >>, impl_items |-> << >> ]
    /\ impl_step = "none"

Init ==
    /\ \/ \E kd \in [ Nodes -> Kinds ] :
          \E E \in SetsUpTo({ e \in Nodes \X Nodes : ValidEdge(kd, e[1], e[2]) }, MaxEdges) :
             /\ kind = kd
             /\ deps = [ n \in Nodes |-> DepsOf(E, n) ]
             /\ WellFormedCrate(kind, deps)
             /\ assoc = NoAssoc
       \/ \E kd \in [ Nodes -> { "trait", "impl" } ], c \in Nodes,
             a \in SeqsUpTo(AssocKinds, MaxAssoc) :
             /\ kind = kd
             /\ deps = [ n \in Nodes |-> {} ]
             /\ assoc = [ n \in Nodes |-> IF n = c THEN a ELSE << >> ]
             \* `Self::T` is written in the methods of traits
             /\ kd[c] = "impl" => "MethodSelf" \notin Range(a)
    /\ PassStart
    /\ NoDriver
    /\ NoEnum
    /\ NoImpl
    /\ NoGenerics

\* The pass is over: visit_item has returned for the last item.
Done == ice = "none" /\ ctl = << >> /\ walk > Len(krate)

\* CollectItemTypesVisitor::visit_item: convert_item(ccx, item) for the next item.
visit_item ==
    /\ ice = "none"
    /\ ctl = << >>
    /\ walk <= Len(krate)
    /\ ctl' = << Frame("convert_item", krate[walk], "start", << >>) >>
    /\ walk' = walk + 1
    /\ ret' = NoRet
    /\ UNCHANGED << hir, fnvars, stack, caches, diags, ice, nwrites, ncompute, converted, convlog >>

----------------------------------------------------------------------------
\* CrateCtxt::cycle_check.

\* The phases in which a function converts the references of its `todo` list,
\* each through an AstConv request.
ReqPhases == { "compute", "generics", "bounds", "supers", "ensure", "preds",
               "selfty", "trait_ref", "param_bounds", "sig" }

\* try!(self.ensure_super_predicates(span, def_id)) saw an Err.
TryFailed(f) ==
    f.fn = "ensure_super_predicates" /\ f.ph = "supers" /\ f.wait /\ ret.r = "Err"

\* The function on top of the call stack is about to call cycle_check.
Calling ==
    /\ Running
    /\ Top.ph \in ReqPhases
    /\ Top.todo # << >>
    /\ ~TryFailed(Top)

\* The request of that call.
NextReq(f) ==
    IF f.ph \in { "supers", "ensure" }
    THEN Req("EnsureSuperPredicates", Head(f.todo))
    ELSE ReqFor(Head(f.todo))

\* What the caller makes of the result of its previous request: an Err, or a
\* scheme that holds the error type, puts the error type into its own result.
Absorb(f) ==
    IF f.wait /\ (ret.r = "Err" \/ ret.v = "err") THEN "err" ELSE f.acc

\* The caller once the call is made.
Called(f) == [ f EXCEPT !.todo = Tail(@), !.wait = TRUE, !.acc = Absorb(f) ]

\* A cycle_check that compares the request with the top of the stack only.
FindRequestTopOnly(stk, r) ==
    IF stk # << >> /\ stk[Len(stk)] = r THEN Len(stk) ELSE 0

\* stack.iter().enumerate().rev().find(|&(_, r)| *r == request): the index of
\* the topmost equal request, 0 for None.
FindRequest(stk, r) ==
    LET I == { i \in 1..Len(stk) : stk[i] = r }
    IN IF I = {} THEN 0 ELSE CHOOSE i \in I : \A j \in I : j <= i

\* A note of the E0391 diagnostic: "the cycle begins when ..", "...which then
\* requires ..", "...which then again requires .., completing the cycle."
Note(part, request) == [ part |-> part, request |-> request ]

\* A report_cycle whose last note names the request on top of the stack.
report_cycle_last_completes(cycle) ==
    [ code |-> "E0391", chain |-> cycle,
      notes |-> << Note("begins", cycle[1]) >>
                \o [ j \in 1..(Len(cycle) - 1) |-> Note("requires", cycle[j + 1]) ]
                \o << Note("completing", cycle[Len(cycle)]) >> ]

\* report_cycle: one E0391 diagnostic narrating the chain: cycle[0] begins
\* the cycle, each of cycle[1..] is required in turn, cycle[0] completes it.
report_cycle(cycle) ==
    [ code |-> "E0391", chain |-> cycle,
      notes |-> << Note("begins", cycle[1]) >>
                \o [ j \in 1..(Len(cycle) - 1) |-> Note("requires", cycle[j + 1]) ]
                \o << Note("completing", cycle[1]) >> ]

\* The closures, with a get_type_parameter_bounds whose closure calls the
\* AstConv method of the same name (and so cycle_check again) instead of
\* param_bounds.get_type_parameter_bounds when the bounds are those of Self.
BodyReenter(r) ==
    CASE r.k = "GetItemTypeScheme" ->
            Frame("type_scheme_of_item", r.id, "start", << >>)
      [] r.k = "GetTraitDef" ->
            Frame("trait_def_of_item", r.id, "start", << >>)
      [] r.k = "EnsureSuperPredicates" ->
            Frame("ensure_super_predicates", r.id, "step", << >>)
      [] r.k = "GetTypeParameterBounds" ->
            Frame("get_type_parameter_bounds", r.id, "param_bounds",
                  IF kind[r.id] = "param" THEN SortedSeq(deps[r.id])
                  ELSE << SelfOf(r.id) >>)

\* The closure each AstConv method hands to cycle_check.  The bounds of a
\* type parameter come from the hir::Generics, each bound converted in turn;
\* the bounds of Self in a method come from the converted predicates of the
\* trait (GetTypeParameterBounds for ty::GenericPredicates), a filter that
\* converts nothing.
Body(r) ==
    CASE r.k = "GetItemTypeScheme" ->
            Frame("type_scheme_of_item", r.id, "start", << >>)
      [] r.k = "GetTraitDef" ->
            Frame("trait_def_of_item", r.id, "start", << >>)
      [] r.k = "EnsureSuperPredicates" ->
            Frame("ensure_super_predicates", r.id, "step", << >>)
      [] r.k = "GetTypeParameterBounds" ->
            Frame("get_type_parameter_bounds", r.id, "param_bounds",
                  IF kind[r.id] = "param" THEN SortedSeq(deps[r.id]) ELSE << >>)

\* cycle_check, the request is on the stack: report the cycle, return Err.
cycle_check_cycle ==
    /\ Calling
    /\ LET f == Top
           r == NextReq(f)
           i == FindRequest(stack, r)
       IN /\ i # 0
          /\ diags' = Append(diags, report_cycle(SubSeq(stack, i, Len(stack))))
          /\ ret' = Err
          /\ ctl' = Append(Below, Called(f))
    /\ UNCHANGED << hir, fnvars, walk, stack, caches, ice, nwrites, ncompute, converted, convlog >>

\* A cycle_check that is not reentrant: the stack keeps the one request of
\* the innermost call.
cycle_check_push_one_request ==
    /\ Calling
    /\ LET f == Top
           r == NextReq(f)
           i == FindRequest(stack, r)
       IN /\ i = 0
          /\ stack' = << r >>
          /\ ctl' = Below \o << Called(f),
                                [ Frame("cycle_check", r.id, "body", << >>)
                                    EXCEPT !.req = r, !.saved = stack ],
                                Body(r) >>
          /\ ret' = NoRet
    /\ UNCHANGED << hir, fnvars, walk, caches, diags, ice, nwrites, ncompute, converted, convlog >>

\* cycle_check, the request is not on the stack: push it and run the closure.
cycle_check_push ==
    /\ Calling
    /\ LET f == Top
           r == NextReq(f)
           i == FindRequest(stack, r)
       IN /\ i = 0
          /\ stack' = Append(stack, r)
          /\ ctl' = Below \o << Called(f),
                                [ Frame("cycle_check", r.id, "body", << >>)
                                    EXCEPT !.req = r, !.saved = stack ],
                                Body(r) >>
          /\ ret' = NoRet
    /\ UNCHANGED << hir, fnvars, walk, caches, diags, ice, nwrites, ncompute, converted, convlog >>

\* A cycle_check whose closure result goes through try! before the pop: the
\* request stays on the stack when the closure fails.
cycle_check_return_no_pop_on_err ==
    /\ Running
    /\ Top.fn = "cycle_check"
    /\ stack' = IF ret.r = "Err" THEN stack ELSE SubSeq(stack, 1, Len(stack) - 1)
    /\ ctl' = Below
    /\ UNCHANGED << hir, fnvars, walk, ret, caches, diags, ice, nwrites, ncompute, converted, convlog >>

\* cycle_check, the closure has returned: pop the stack, hand on the result.
cycle_check_return ==
    /\ Running
    /\ Top.fn = "cycle_check"
    /\ stack' = SubSeq(stack, 1, Len(stack) - 1)
    /\ ctl' = Below
    /\ UNCHANGED << hir, fnvars, walk, ret, caches, diags, ice, nwrites, ncompute, converted, convlog >>

----------------------------------------------------------------------------
\* Type schemes.

Replace(f) == Append(Below, f)

\* A memoize that never finds the stored value.
memoized_never(cache, key) == FALSE

\* MemoizationMap::memoize as type_scheme_of_item uses it: the stored value,
\* when there is one, is returned and the closure is not run.
memoized(cache, key) == cache[key] # "none"

\* type_scheme_of_def_id / type_scheme_of_item, the scheme is in tcache.
type_scheme_of_item_hit ==
    /\ Running
    /\ Top.fn = "type_scheme_of_item" /\ Top.ph = "start"
    /\ memoized(tcache, Top.id)
    /\ ctl' = Below
    /\ ret' = Ok(tcache[Top.id])
    /\ UNCHANGED << hir, fnvars, walk, stack, caches, diags, ice, nwrites, ncompute, converted, convlog >>

\* ty_generics: get_or_create_type_parameter_def for each type parameter of
\* the generics; the parameters that have no definition in tcx.ty_param_defs.
CreatedParams(x) == { q \in ParamsOf(kind, deps, x) : ty_param_defs[q] = "none" }

\* type_scheme_of_item, nothing stored: compute_type_scheme_of_item starts,
\* ty_generics creates the definitions of the type parameters, and the types
\* the signature names are converted.
compute_type_scheme_of_item ==
    /\ Running
    /\ Top.fn = "type_scheme_of_item" /\ Top.ph = "start"
    /\ ~memoized(tcache, Top.id)
    /\ ncompute' = [ ncompute EXCEPT ![Top.id] = @ + 1 ]
    /\ ty_param_defs' = [ n \in Nodes |-> IF n \in CreatedParams(Top.id) THEN "def"
                                          ELSE ty_param_defs[n] ]
    /\ nwrites' = [ nwrites EXCEPT !["ty_param_defs"] =
                       [ n \in Nodes |-> IF n \in CreatedParams(Top.id) THEN @[n] + 1
                                         ELSE @[n] ] ]
    /\ ctl' = Replace(Frame("type_scheme_of_item", Top.id, "compute", SortedSeq(deps[Top.id])))
    /\ UNCHANGED << hir, fnvars, walk, ret, stack, tcache, trait_defs, super_predicates,
                    predicates, diags, ice, converted, convlog >>

\* compute_type_scheme_of_item has returned: memoize stores the scheme.
type_scheme_of_item_store ==
    /\ Running
    /\ Top.fn = "type_scheme_of_item" /\ Top.ph = "compute" /\ Top.todo = << >>
    /\ tcache' = [ tcache EXCEPT ![Top.id] = Absorb(Top) ]
    /\ nwrites' = Bump("tcache", Top.id)
    /\ ctl' = Below
    /\ ret' = Ok(Absorb(Top))
    /\ UNCHANGED << hir, fnvars, walk, stack, ty_param_defs, trait_defs, super_predicates,
                    predicates, diags,
                    ice, ncompute, converted, convlog >>

----------------------------------------------------------------------------
\* Trait definitions.

\* trait_def_of_item, the definition is in tcx.trait_defs.
trait_def_of_item_hit ==
    /\ Running
    /\ Top.fn = "trait_def_of_item" /\ Top.ph = "start"
    /\ trait_defs[Top.id] # "none"
    /\ ctl' = Below
    /\ ret' = Ok("ok")
    /\ UNCHANGED << hir, fnvars, walk, stack, caches, diags, ice, nwrites, ncompute, converted, convlog >>

\* trait_def_of_item, nothing stored: ty_generics_for_trait converts the
\* defaults of the type parameters.
trait_def_of_item_compute ==
    /\ Running
    /\ Top.fn = "trait_def_of_item" /\ Top.ph = "start"
    /\ trait_defs[Top.id] = "none"
    /\ ncompute' = [ ncompute EXCEPT ![Top.id] = @ + 1 ]
    /\ ctl' = Replace(Frame("trait_def_of_item", Top.id, "generics", SortedSeq(Defaults(Top.id))))
    /\ UNCHANGED << hir, fnvars, walk, ret, stack, caches, diags, ice, nwrites, converted, convlog >>

\* trait_def_of_item, the defaults are converted: ty_generics_for_trait
\* inserts the definition of the Self parameter under the node id of the
\* trait, and tcx.intern_trait_def(trait_def) stores the definition.
intern_trait_def ==
    /\ Running
    /\ Top.fn = "trait_def_of_item" /\ Top.ph = "generics" /\ Top.todo = << >>
    /\ ty_param_defs' = [ ty_param_defs EXCEPT ![Top.id] = "def" ]
    /\ trait_defs' = [ trait_defs EXCEPT ![Top.id] = "def" ]
    /\ nwrites' = [ nwrites EXCEPT !["trait_defs"][Top.id] = @ + 1,
                                   !["ty_param_defs"][Top.id] = @ + 1 ]
    /\ ctl' = Below
    /\ ret' = Ok("ok")
    /\ UNCHANGED << hir, fnvars, walk, stack, tcache, super_predicates, predicates, diags,
                    ice, ncompute, converted, convlog >>

----------------------------------------------------------------------------
\* Super-predicates.

\* An ensure_super_predicates_step that does not look into
\* tcx.super_predicates before it computes.
ensure_super_predicates_step_recompute ==
    /\ Running
    /\ Top.fn = "ensure_super_predicates" /\ Top.ph = "step"
    /\ ctl' = Below \o
              << Frame("ensure_super_predicates", Top.id, "bounds",
                       SortedSeq(Supers(Top.id))),
                 Frame("trait_def_of_item", Top.id, "start", << >>) >>
    /\ UNCHANGED << hir, fnvars, walk, ret, stack, caches, diags, ice, nwrites, ncompute,
                    converted, convlog >>

\* ensure_super_predicates_step: the stored super-predicates, or, when there
\* are none, trait_def_of_item and then compute_bounds on the supertraits.
ensure_super_predicates_step ==
    /\ Running
    /\ Top.fn = "ensure_super_predicates" /\ Top.ph = "step"
    /\ IF super_predicates[Top.id].some
       THEN ctl' = Replace(Frame("ensure_super_predicates", Top.id, "supers",
                                 SortedSeq(super_predicates[Top.id].ids)))
       ELSE ctl' = Below \o
                   << Frame("ensure_super_predicates", Top.id, "bounds",
                            SortedSeq(Supers(Top.id))),
                      Frame("trait_def_of_item", Top.id, "start", << >>) >>
    /\ UNCHANGED << hir, fnvars, walk, ret, stack, caches, diags, ice, nwrites, ncompute,
                    converted, convlog >>

\* An ensure_super_predicates_step that stores the super-predicates and hands
\* no def id back, so that ensure_super_predicates walks no supertrait.
super_predicates_insert_no_walk ==
    /\ Running
    /\ Top.fn = "ensure_super_predicates" /\ Top.ph = "bounds" /\ Top.todo = << >>
    /\ super_predicates' = [ super_predicates EXCEPT ![Top.id] = Stored(Supers(Top.id)) ]
    /\ nwrites' = Bump("super_predicates", Top.id)
    /\ ctl' = Replace(Frame("ensure_super_predicates", Top.id, "supers", << >>))
    /\ UNCHANGED << hir, fnvars, walk, ret, stack, ty_param_defs, tcache, trait_defs,
                    predicates, diags,
                    ice, ncompute, converted, convlog >>

\* ensure_super_predicates_step: tcx.super_predicates.insert(..); the def ids
\* of the super-predicates are what ensure_super_predicates walks next.
super_predicates_insert ==
    /\ Running
    /\ Top.fn = "ensure_super_predicates" /\ Top.ph = "bounds" /\ Top.todo = << >>
    /\ super_predicates' = [ super_predicates EXCEPT ![Top.id] = Stored(Supers(Top.id)) ]
    /\ nwrites' = Bump("super_predicates", Top.id)
    /\ ctl' = Replace(Frame("ensure_super_predicates", Top.id, "supers",
                            SortedSeq(Supers(Top.id))))
    /\ UNCHANGED << hir, fnvars, walk, ret, stack, ty_param_defs, tcache, trait_defs,
                    predicates, diags,
                    ice, ncompute, converted, convlog >>

\* An ensure_super_predicates that drops the result of the nested call instead
\* of handing it to try!.
ensure_super_predicates_return_ignore ==
    /\ Running
    /\ Top.fn = "ensure_super_predicates" /\ Top.ph = "supers"
    /\ Top.todo = << >>
    /\ ret' = Ok("unit")
    /\ ctl' = Below
    /\ UNCHANGED << hir, fnvars, walk, stack, caches, diags, ice, nwrites, ncompute,
                    converted, convlog >>

\* The closure of ensure_super_predicates returns: Err as soon as try! sees
\* one, Ok(()) after the last def id.
ensure_super_predicates_return ==
    /\ Running
    /\ Top.fn = "ensure_super_predicates" /\ Top.ph = "supers"
    /\ \/ /\ TryFailed(Top)
          /\ ret' = Err
       \/ /\ ~TryFailed(Top)
          /\ Top.todo = << >>
          /\ ret' = Ok("unit")
    /\ ctl' = Below
    /\ UNCHANGED << hir, fnvars, walk, stack, caches, diags, ice, nwrites, ncompute,
                    converted, convlog >>

----------------------------------------------------------------------------
\* Bounds of a type parameter.

\* The closure of get_type_parameter_bounds returns the bounds found in the
\* hir::Generics.
get_type_parameter_bounds_return ==
    /\ Running
    /\ Top.fn = "get_type_parameter_bounds" /\ Top.todo = << >>
    /\ ctl' = Below
    /\ ret' = Ok("ok")
    /\ UNCHANGED << hir, fnvars, walk, stack, caches, diags, ice, nwrites, ncompute,
                    converted, convlog >>

----------------------------------------------------------------------------
\* convert_item.

RECURSIVE Concat(_)
Concat(ss) == IF ss = << >> THEN << >> ELSE Head(ss) \o Concat(Tail(ss))

\* ty_generic_predicates: compute_bounds on the bounds of each type
\* parameter of the item, in the order of the parameters.
BoundsOfParams(x) ==
    LET ps == SortedSeq(ParamsOf(kind, deps, x))
    IN Concat([ i \in 1..Len(ps) |-> SortedSeq(deps[ps[i]]) ])

Select(s, K) == SortedSeq({ i \in 1..Len(s) : s[i] \in K })

\* A convert_item whose last loop takes the constants and the methods.
ConvOrderValuesAgain(items) ==
    Select(items, { "Const" }) \o Select(items, { "Type" })
    \o Select(items, { "Const" } \cup Methods)

\* A convert_item with one loop over the associated items, in source order.
ConvOrderOneLoop(items) == SortedSeq(1..Len(items))

\* The three loops of convert_item over the associated items of a trait or
\* an impl: the constants, then the types, then the methods.
ConvOrder(items) ==
    Select(items, { "Const" }) \o Select(items, { "Type" }) \o Select(items, Methods)

\* convert_item on a typed item: convert_typed_item calls type_scheme_of_item
\* and then ty_generic_predicates.
convert_typed_item ==
    /\ Running
    /\ Top.fn = "convert_item" /\ Top.ph = "start" /\ kind[Top.id] = "typed"
    /\ ctl' = Below \o
              << Frame("convert_item", Top.id, "preds", BoundsOfParams(Top.id)),
                 Frame("type_scheme_of_item", Top.id, "start", << >>) >>
    /\ UNCHANGED << hir, fnvars, walk, ret, stack, caches, diags, ice, nwrites, ncompute,
                    converted, convlog >>

\* convert_typed_item: tcx.predicates.insert(..), assert!(prev_predicates.is_none()).
convert_typed_item_predicates ==
    /\ Running
    /\ Top.fn = "convert_item" /\ Top.ph = "preds" /\ Top.todo = << >>
    /\ IF predicates[Top.id].some
       THEN /\ ice' = "prev_predicates"
            /\ UNCHANGED << ctl, predicates, nwrites, converted >>
       ELSE /\ predicates' = [ predicates EXCEPT ![Top.id] = GenericPredicates(<< >>) ]
            /\ nwrites' = Bump("predicates", Top.id)
            /\ ctl' = Below
            /\ converted' = Append(converted, Top.id)
            /\ ice' = ice
    /\ UNCHANGED << hir, fnvars, walk, ret, stack, ty_param_defs, tcache, trait_defs,
                    super_predicates, diags,
                    ncompute, convlog >>

\* A convert_item that goes from trait_def_of_item to convert_trait_predicates
\* without ensure_super_predicates.
convert_item_trait_no_ensure ==
    /\ Running
    /\ Top.fn = "convert_item" /\ Top.ph = "start" /\ kind[Top.id] = "trait"
    /\ ctl' = Below \o
              << Frame("convert_item", Top.id, "ensure", << >>),
                 Frame("trait_def_of_item", Top.id, "start", << >>) >>
    /\ UNCHANGED << hir, fnvars, walk, ret, stack, caches, diags, ice, nwrites, ncompute,
                    converted, convlog >>

\* convert_item on a trait: trait_def_of_item, then ensure_super_predicates.
convert_item_trait ==
    /\ Running
    /\ Top.fn = "convert_item" /\ Top.ph = "start" /\ kind[Top.id] = "trait"
    /\ ctl' = Below \o
              << Frame("convert_item", Top.id, "ensure", << Top.id >>),
                 Frame("trait_def_of_item", Top.id, "start", << >>) >>
    /\ UNCHANGED << hir, fnvars, walk, ret, stack, caches, diags, ice, nwrites, ncompute,
                    converted, convlog >>

\* Base predicates that are the super-predicates and nothing else.
base_predicates_supers_only(t) == SortedSeq(super_predicates[t].ids)

\* convert_trait_predicates, the predicates of SelfSpace: the super-predicates
\* and, pushed after them, the predicate `Self: Trait` for the trait itself.
base_predicates(t) == SortedSeq(super_predicates[t].ids) \o << t >>

\* A convert_item that gives up on the trait (and on the pass) when
\* ensure_super_predicates fails.
convert_trait_predicates_try ==
    /\ Running
    /\ Top.fn = "convert_item" /\ Top.ph = "ensure" /\ Top.todo = << >>
    /\ IF ret.r = "Err"
       THEN /\ ice' = "abort"
            /\ UNCHANGED << ctl, predicates, nwrites >>
       ELSE /\ predicates' = [ predicates EXCEPT ![Top.id] =
                                    GenericPredicates(base_predicates(Top.id)) ]
            /\ nwrites' = Bump("predicates", Top.id)
            /\ ctl' = Replace(Frame("convert_item", Top.id, "items",
                                    ConvOrder(assoc[Top.id])))
            /\ ice' = ice
    /\ UNCHANGED << hir, fnvars, walk, ret, stack, ty_param_defs, tcache, trait_defs,
                    super_predicates, diags,
                    ncompute, converted, convlog >>

\* convert_item on a trait, the result of ensure_super_predicates is dropped:
\* convert_trait_predicates looks the super-predicates up, stores the
\* predicates of the trait (assert!(prev_predicates.is_none())).
convert_trait_predicates ==
    /\ Running
    /\ Top.fn = "convert_item" /\ Top.ph = "ensure" /\ Top.todo = << >>
    /\ IF ~super_predicates[Top.id].some
       THEN /\ ice' = "lookup_super_predicates"
            /\ UNCHANGED << ctl, predicates, nwrites >>
       ELSE IF predicates[Top.id].some
       THEN /\ ice' = "prev_predicates"
            /\ UNCHANGED << ctl, predicates, nwrites >>
       ELSE /\ predicates' = [ predicates EXCEPT ![Top.id] =
                                    GenericPredicates(base_predicates(Top.id)) ]
            /\ nwrites' = Bump("predicates", Top.id)
            /\ ctl' = Replace(Frame("convert_item", Top.id, "items",
                                    ConvOrder(assoc[Top.id])))
            /\ ice' = ice
    /\ UNCHANGED << hir, fnvars, walk, ret, stack, ty_param_defs, tcache, trait_defs,
                    super_predicates, diags,
                    ncompute, converted, convlog >>

\* convert_item on an impl: the self type is converted first.
convert_item_impl ==
    /\ Running
    /\ Top.fn = "convert_item" /\ Top.ph = "start" /\ kind[Top.id] = "impl"
    /\ ctl' = Replace(Frame("convert_item", Top.id, "selfty",
                            SortedSeq({ d \in deps[Top.id] : kind[d] = "typed" })))
    /\ UNCHANGED << hir, fnvars, walk, ret, stack, caches, diags, ice, nwrites, ncompute,
                    converted, convlog >>

\* convert_item on an impl: tcx.register_item_type(def_id, ..) with the self
\* type, then the trait reference.
impl_register_item_type ==
    /\ Running
    /\ Top.fn = "convert_item" /\ Top.ph = "selfty" /\ Top.todo = << >>
    /\ tcache' = [ tcache EXCEPT ![Top.id] = Absorb(Top) ]
    /\ nwrites' = Bump("tcache", Top.id)
    /\ ctl' = Replace(Frame("convert_item", Top.id, "trait_ref",
                            SortedSeq({ d \in deps[Top.id] : kind[d] = "trait" })))
    /\ UNCHANGED << hir, fnvars, walk, ret, stack, ty_param_defs, trait_defs, super_predicates,
                    predicates,
                    diags, ice, ncompute, converted, convlog >>

\* convert_item on an impl: tcx.predicates.insert(def_id, ..).
impl_predicates_insert ==
    /\ Running
    /\ Top.fn = "convert_item" /\ Top.ph = "trait_ref" /\ Top.todo = << >>
    /\ predicates' = [ predicates EXCEPT ![Top.id] = GenericPredicates(<< >>) ]
    /\ nwrites' = Bump("predicates", Top.id)
    /\ ctl' = Replace(Frame("convert_item", Top.id, "items", ConvOrder(assoc[Top.id])))
    /\ UNCHANGED << hir, fnvars, walk, ret, stack, ty_param_defs, tcache, trait_defs,
                    super_predicates,
                    diags, ice, ncompute, converted, convlog >>

\* The next associated item is a method of a trait that names `Self::T`.
SelfMethodNext(f) ==
    /\ kind[f.id] = "trait"
    /\ assoc[f.id][Head(f.todo)] = "MethodSelf"

\* convert_item on a trait or an impl: the next associated item is converted
\* (convert_associated_const, convert_associated_type, convert_method).
convert_assoc_item ==
    /\ Running
    /\ Top.fn = "convert_item" /\ Top.ph = "items" /\ Top.todo # << >>
    /\ ~SelfMethodNext(Top)
    /\ convlog' = Append(convlog, [ c |-> Top.id, i |-> Head(Top.todo),
                                    k |-> assoc[Top.id][Head(Top.todo)] ])
    /\ ctl' = Replace([ Top EXCEPT !.todo = Tail(@) ])
    /\ UNCHANGED << hir, fnvars, walk, ret, stack, caches, diags, ice, nwrites, ncompute,
                    converted >>

\* convert_method on a method of a trait that names `Self::T`: ty_of_method
\* converts the signature in icx(&(rcvr_ty_predicates, &sig.generics)) and
\* asks for the bounds of Self.
convert_method ==
    /\ Running
    /\ Top.fn = "convert_item" /\ Top.ph = "items" /\ Top.todo # << >>
    /\ SelfMethodNext(Top)
    /\ convlog' = Append(convlog, [ c |-> Top.id, i |-> Head(Top.todo),
                                    k |-> assoc[Top.id][Head(Top.todo)] ])
    /\ ctl' = Below \o << [ Top EXCEPT !.todo = Tail(@) ],
                          Frame("convert_method", Top.id, "sig", << SelfOf(Top.id) >>) >>
    /\ UNCHANGED << hir, fnvars, walk, ret, stack, caches, diags, ice, nwrites, ncompute,
                    converted >>

\* convert_method: the signature is converted, the method is registered.
convert_method_return ==
    /\ Running
    /\ Top.fn = "convert_method" /\ Top.todo = << >>
    /\ ctl' = Below
    /\ UNCHANGED << hir, fnvars, walk, ret, stack, caches, diags, ice, nwrites, ncompute,
                    converted, convlog >>

\* convert_item on a trait or an impl returns.
convert_item_return ==
    /\ Running
    /\ Top.fn = "convert_item" /\ Top.ph = "items" /\ Top.todo = << >>
    /\ ctl' = Below
    /\ converted' = Append(converted, Top.id)
    /\ UNCHANGED << hir, fnvars, walk, ret, stack, caches, diags, ice, nwrites, ncompute,
                    convlog >>

----------------------------------------------------------------------------

Next ==
    \/ visit_item
    \/ cycle_check_cycle
    \/ cycle_check_push
    \/ cycle_check_return
    \/ type_scheme_of_item_hit
    \/ compute_type_scheme_of_item
    \/ type_scheme_of_item_store
    \/ trait_def_of_item_hit
    \/ trait_def_of_item_compute
    \/ intern_trait_def
    \/ ensure_super_predicates_step
    \/ super_predicates_insert
    \/ ensure_super_predicates_return
    \/ get_type_parameter_bounds_return
    \/ convert_typed_item
    \/ convert_typed_item_predicates
    \/ convert_item_trait
    \/ convert_trait_predicates
    \/ convert_item_impl
    \/ impl_register_item_type
    \/ impl_predicates_insert
    \/ convert_assoc_item
    \/ convert_method
    \/ convert_method_return
    \/ convert_item_return

Spec == Init /\ [][Next]_vars

\* The pass is one thread of control: a step that can be taken is taken.
FairSpec == Spec /\ WF_vars(Next)

----------------------------------------------------------------------------
\* convert_enum_def: the discriminants of the variants of an enum.

Some(v) == [ some |-> TRUE, v |-> v ]
None == [ some |-> FALSE, v |-> 0 ]

RECURSIVE Pow2(_)
Pow2(n) == IF n = 0 THEN 1 ELSE 2 * Pow2(n - 1)

\* `val as ty::Disr`: the word of an integer.
ToDisr(v) == v % Pow2(DisrBits)

\* `val as i64`: the word read as a signed integer.
AsSigned(d) == IF d >= Pow2(DisrBits - 1) THEN d - Pow2(DisrBits) ELSE d

ReprTypes == { "i8", "u8" }
IsSigned(t) == t = "i8"
IntMin(t) == IF IsSigned(t) THEN -128 ELSE 0
IntMax(t) == IF IsSigned(t) THEN 127 ELSE 255

\* The word read in the representation type.
ReprValue(t, d) == IF IsSigned(t) THEN AsSigned(d) ELSE d

\* to_i8 / to_u8: the value, when the representation type has it.
ToRepr(t, d) ==
    IF IntMin(t) <= ReprValue(t, d) /\ ReprValue(t, d) <= IntMax(t)
    THEN Some(ReprValue(t, d)) ELSE None

\* `val as i8` / `val as u8`: the low bits of the word.
Truncate(t, d) ==
    LET low == d % 256
    IN IF IsSigned(t) /\ low >= 128 THEN low - 256 ELSE low

INITIAL_DISCRIMINANT_VALUE == 0

\* IntType::disr_incr: the successor, None when the representation type has
\* none.
disr_incr(t, d) ==
    LET x == ToRepr(t, d)
    IN IF x.some /\ x.v < IntMax(t) THEN Some(ToDisr(x.v + 1)) ELSE None

\* IntType::disr_wrap_incr: the successor in wrapping arithmetic; the initial
\* value when there is no previous discriminant.
disr_wrap_incr(t, prev) ==
    IF ~prev.some THEN INITIAL_DISCRIMINANT_VALUE
    ELSE LET x == Truncate(t, prev.v)
         IN ToDisr(IF x = IntMax(t) THEN IntMin(t) ELSE x + 1)

\* What const_eval::eval_const_expr_partial makes of the disr_expr of a
\* variant: Ok(Int), Ok(Uint), Ok of another constant, Err; "None" is a
\* variant without disr_expr.
IntVals == { -128, -1, 120, 127 }
UintVals == { 0, 255 }
DisrExprs ==
    { [ k |-> "None", v |-> 0 ], [ k |-> "Other", v |-> 0 ], [ k |-> "Err", v |-> 0 ] }
      \cup { [ k |-> "Int", v |-> x ] : x \in IntVals }
      \cup { [ k |-> "Uint", v |-> x ] : x \in UintVals }

\* An evaluate_disr_expr that accepts any constant without a diagnostic.
evaluate_disr_expr_quiet(e, i) ==
    CASE e.k \in { "Int", "Uint" } -> [ val |-> Some(ToDisr(e.v)), diags |-> << >> ]
      [] e.k = "Other" -> [ val |-> None, diags |-> << >> ]
      [] e.k = "Err" -> [ val |-> None, diags |-> << [ code |-> "E0080", variant |-> i ] >> ]

\* evaluate_disr_expr for variant i.
evaluate_disr_expr(e, i) ==
    CASE e.k \in { "Int", "Uint" } -> [ val |-> Some(ToDisr(e.v)), diags |-> << >> ]
      [] e.k = "Other" -> [ val |-> None, diags |-> << [ code |-> "E0079", variant |-> i ] >> ]
      [] e.k = "Err" -> [ val |-> None, diags |-> << [ code |-> "E0080", variant |-> i ] >> ]

report_discrim_overflow(i, prev_val) ==
    [ code |-> "E0370", variant |-> i, prev |-> prev_val ]

\* A next_disr that does not report the overflow.
next_disr_silent(i, t, prev) ==
    IF prev.some
    THEN [ val |-> disr_incr(t, prev.v), diags |-> << >> ]
    ELSE [ val |-> Some(INITIAL_DISCRIMINANT_VALUE), diags |-> << >> ]

\* next_disr for variant i.
next_disr(i, t, prev) ==
    IF prev.some
    THEN [ val |-> disr_incr(t, prev.v),
           diags |-> IF disr_incr(t, prev.v).some THEN << >>
                     ELSE << report_discrim_overflow(i, prev.v) >> ]
    ELSE [ val |-> Some(INITIAL_DISCRIMINANT_VALUE), diags |-> << >> ]

EnumInit ==
    /\ kind = [ n \in Nodes |-> "typed" ]
    /\ deps = [ n \in Nodes |-> {} ]
    /\ assoc = NoAssoc
    /\ PassStart
    /\ NoDriver
    /\ repr_type \in ReprTypes
    /\ variants \in SeqsUpTo(DisrExprs, MaxVariants)
    /\ prev_disr = None
    /\ disrs = << >>
    /\ adt_defs = [ some |-> FALSE, v |-> << >> ]
    /\ NoGenerics
    /\ NoImpl

\* A closure that does not keep the discriminant for the next variant.
convert_enum_def_variant_no_prev ==
    /\ ~adt_defs.some
    /\ Len(disrs) < Len(variants)
    /\ LET i == Len(disrs) + 1
           e == variants[i]
           r == IF e.k # "None" THEN evaluate_disr_expr(e, i)
                ELSE next_disr(i, repr_type, prev_disr)
           disr == IF r.val.some THEN r.val.v ELSE disr_wrap_incr(repr_type, prev_disr)
       IN /\ diags' = diags \o r.diags
          /\ disrs' = Append(disrs, disr)
          /\ prev_disr' = prev_disr
    /\ UNCHANGED << hir, passvars, drv, adt_defs, generics_out, impl_step >>

\* convert_enum_def, the closure of def.variants.iter().map, for the next
\* variant.
convert_enum_def_variant ==
    /\ ~adt_defs.some
    /\ Len(disrs) < Len(variants)
    /\ LET i == Len(disrs) + 1
           e == variants[i]
           r == IF e.k # "None" THEN evaluate_disr_expr(e, i)
                ELSE next_disr(i, repr_type, prev_disr)
           disr == IF r.val.some THEN r.val.v ELSE disr_wrap_incr(repr_type, prev_disr)
       IN /\ diags' = diags \o r.diags
          /\ disrs' = Append(disrs, disr)
          /\ prev_disr' = Some(disr)
    /\ UNCHANGED << hir, passvars, drv, adt_defs, generics_out, impl_step >>

\* convert_enum_def: tcx.intern_adt_def(.., variants).
intern_adt_def ==
    /\ ~adt_defs.some
    /\ Len(disrs) = Len(variants)
    /\ adt_defs' = [ some |-> TRUE, v |-> disrs ]
    /\ UNCHANGED << hir, passvars, drv, diags, prev_disr, disrs, generics_out, impl_step >>

EnumNext ==
    \/ convert_enum_def_variant
    \/ intern_adt_def

EnumSpec == EnumInit /\ [][EnumNext]_vars

\* C12: the first variant without explicit value gets 0; a variant whose
\* expression evaluates to an integer gets that value; a variant without
\* explicit value after a discriminant p of the representation type, p below
\* the maximum, gets p + 1; for i8 and [A, B = 120, C, D] the discriminants
\* are [0, 120, 121, 122] and nothing is reported.
C12_DiscriminantLaw ==
    /\ \A i \in 1..Len(disrs) :
          LET e == variants[i]
              p == ReprValue(repr_type, disrs[i - 1])
          IN /\ (i = 1 /\ e.k = "None") => disrs[i] = 0
             /\ e.k = "Int" => AsSigned(disrs[i]) = e.v
             /\ e.k = "Uint" => disrs[i] = e.v
             /\ (i > 1 /\ e.k = "None" /\ IntMin(repr_type) <= p /\ p < IntMax(repr_type)) =>
                    ReprValue(repr_type, disrs[i]) = p + 1
    /\ (adt_defs.some /\ repr_type = "i8"
           /\ variants = << [ k |-> "None", v |-> 0 ], [ k |-> "Int", v |-> 120 ],
                            [ k |-> "None", v |-> 0 ], [ k |-> "None", v |-> 0 ] >>) =>
          (adt_defs.v = << 0, 120, 121, 122 >> /\ diags = << >>)

\* The enum [A, B = 120, C, D] with representation i8 is interned.
C12_Witness ==
    /\ adt_defs.some /\ repr_type = "i8"
    /\ variants = << [ k |-> "None", v |-> 0 ], [ k |-> "Int", v |-> 120 ],
                     [ k |-> "None", v |-> 0 ], [ k |-> "None", v |-> 0 ] >>
    /\ adt_defs.v = << 0, 120, 121, 122 >>

\* The diagnostics with code c reported for variant i.
DiagsFor(c, i) == { n \in 1..Len(diags) : diags[n].code \in c /\ diags[n].variant = i }

\* C13: a variant without explicit value whose predecessor holds the maximum
\* of the representation type gets one overflow diagnostic and the wrapped
\* value (the minimum of the type); a variant whose predecessor is a value
\* of the type below the maximum, a first variant and a variant with an
\* explicit value get no overflow diagnostic.
C13_OverflowWraps ==
    \A i \in 1..Len(disrs) :
        LET e == variants[i]
            p == ReprValue(repr_type, disrs[i - 1])
            n == Cardinality(DiagsFor({ "E0370" }, i))
        IN /\ (i > 1 /\ e.k = "None" /\ p = IntMax(repr_type)) =>
                 (n = 1 /\ ReprValue(repr_type, disrs[i]) = IntMin(repr_type))
           /\ (i > 1 /\ e.k = "None" /\ IntMin(repr_type) <= p /\ p < IntMax(repr_type)) =>
                 n = 0
           /\ (i = 1 \/ e.k # "None") => n = 0

\* An i8 enum [.., X = 127, Y, Z]: Y overflowed to -128 with one diagnostic and
\* Z went on from there.
C13_Witness ==
    /\ adt_defs.some /\ repr_type = "i8"
    /\ \E i \in 2..(Len(variants) - 1) :
          /\ variants[i - 1] = [ k |-> "Int", v |-> 127 ]
          /\ variants[i].k = "None" /\ variants[i + 1].k = "None"
          /\ AsSigned(disrs[i]) = -128 /\ AsSigned(disrs[i + 1]) = -127
          /\ Cardinality(DiagsFor({ "E0370" }, i)) = 1
          /\ Len(diags) = 1

----------------------------------------------------------------------------
\* The object lifetime default of a type parameter.

\* The type parameter whose definition is created.
param_id == "T"

\* is_param: the type is a path that resolves, whole, to the parameter.
is_param(ast_ty, id) == ast_ty.depth = 0 /\ ast_ty.id = id

\* from_bounds: the regions of the lifetime bounds of a bound list, in order.
from_bounds(bounds) ==
    LET ls == SelectSeq(bounds, LAMBDA b : b.k = "Region")
    IN [ i \in 1..Len(ls) |-> ast_region_to_region(ls[i].l) ]

\* from_predicates that takes the bounds of every where predicate on a type.
RECURSIVE from_predicates_any_ty(_, _)
from_predicates_any_ty(id, preds) ==
    IF preds = << >> THEN << >>
    ELSE LET data == Head(preds)
         IN (IF data.k = "Bound" /\ data.bound_lifetimes = << >>
             THEN from_bounds(data.bounds) ELSE << >>)
            \o from_predicates_any_ty(id, Tail(preds))

\* from_predicates: the lifetime bounds of the where predicates that bind no
\* lifetime and whose bounded type is the parameter.
RECURSIVE from_predicates(_, _)
from_predicates(id, preds) ==
    IF preds = << >> THEN << >>
    ELSE LET data == Head(preds)
         IN (IF data.k = "Bound" /\ data.bound_lifetimes = << >>
                  /\ is_param(data.bounded_ty, id)
             THEN from_bounds(data.bounds) ELSE << >>)
            \o from_predicates(id, Tail(preds))

compute_object_lifetime_default(id, bounds, clause) ==
    LET inline_bounds == from_bounds(bounds)
        where_bounds == from_predicates(id, clause)
        all == inline_bounds \o where_bounds
        all_bounds == { all[i] : i \in 1..Len(all) }
    IN IF Cardinality(all_bounds) > 1 THEN Ambiguous
       ELSE IF Cardinality(all_bounds) = 0 THEN BaseDefault
       ELSE Specific(CHOOSE r \in all_bounds : TRUE)

\* The bounds and where predicates the parameters are drawn from.
LifetimeBounds == { TraitTyParamBound(1, 0) } \cup { RegionTyParamBound(l) : l \in Lifetimes }
BoundedTys == { TyPath("T", 0), TyPath("T", 1), TyPath("U", 0) }
LifetimePredicates ==
    { BoundPredicate(hr, ty, bs) : hr \in { << >>, << "'x" >> }, ty \in BoundedTys,
                                   bs \in SeqsUpTo(LifetimeBounds, MaxBounds - 1) }
    \cup { RegionPredicate("'a", << "'static" >>), EqPredicate }

LifetimeInit ==
    /\ kind = [ n \in Nodes |-> "typed" ]
    /\ deps = [ n \in Nodes |-> {} ]
    /\ assoc = NoAssoc
    /\ PassStart
    /\ NoDriver
    /\ NoEnum
    /\ NoImpl
    /\ param_bounds \in SeqsUpTo(LifetimeBounds, MaxBounds)
    /\ SizedDefaults
    /\ NoTyGenerics
    /\ where_clause \in SeqsUpTo(LifetimePredicates, MaxWhere)
    /\ object_lifetime_default = [ some |-> FALSE, v |-> BaseDefault ]
    /\ result_predicates = [ some |-> FALSE, v |-> << >> ]

\* get_or_create_type_parameter_def for the parameter, which has no definition
\* yet.
get_or_create_type_parameter_def ==
    /\ ~object_lifetime_default.some
    /\ object_lifetime_default' =
          Some(compute_object_lifetime_default(param_id, param_bounds, where_clause))
    /\ UNCHANGED << hir, passvars, drv, diags, prev_disr, disrs, adt_defs, result_predicates,
                    result_generics,
                    impl_step >>

LifetimeNext == get_or_create_type_parameter_def

LifetimeSpec == LifetimeInit /\ [][LifetimeNext]_vars

\* The lifetimes written inline on the parameter.
InlineLifetimes ==
    { param_bounds[i].l : i \in { j \in 1..Len(param_bounds) : param_bounds[j].k = "Region" } }

\* The lifetimes written in the where predicates of W.
WhereLifetimes(W) ==
    UNION { { where_clause[i].bounds[n].l :
                n \in { m \in 1..Len(where_clause[i].bounds) :
                          where_clause[i].bounds[m].k = "Region" } } : i \in W }

\* The where predicates on a type whose bounded type is the parameter.
OnParam ==
    { i \in 1..Len(where_clause) :
        where_clause[i].k = "Bound" /\ where_clause[i].bounded_ty = TyPath(param_id, 0) }

\* The law of the object lifetime default for the set L of lifetimes.
DefaultLaw(L) ==
    object_lifetime_default.some =>
       /\ L = {} => object_lifetime_default.v = BaseDefault
       /\ \A l \in L : L = { l } =>
             object_lifetime_default.v = Specific(ast_region_to_region(l))
       /\ Cardinality(L) >= 2 => object_lifetime_default.v = Ambiguous

\* C15 as stated: the lifetimes are collected from the inline bounds and
\* from every where predicate whose bounded type is the parameter; none
\* gives BaseDefault, one lifetime l (written once or more) Specific(l), two
\* or more Ambiguous.
C15_AllEntriesOnParam == DefaultLaw(InlineLifetimes \cup WhereLifetimes(OnParam))

\* C15: the lifetimes are collected from the inline bounds and from the
\* where predicates whose bounded type is the parameter and that bind no
\* lifetime of their own (no `for<..>`); none gives BaseDefault, one
\* lifetime l (written once or more) Specific(l), two or more Ambiguous.
C15_ObjectLifetimeDefault ==
    DefaultLaw(InlineLifetimes \cup
               WhereLifetimes({ i \in OnParam : where_clause[i].bound_lifetimes = << >> }))

\* `T: 'a` inline and `where T: 'a`: the default is Specific('a).
C15_Witness ==
    /\ object_lifetime_default = Some(Specific(ReEarlyBound("'a")))
    /\ \E i \in 1..Len(param_bounds) : param_bounds[i] = RegionTyParamBound("'a")
    /\ \E i \in OnParam : /\ where_clause[i].bound_lifetimes = << >>
                          /\ where_clause[i].bounds = << RegionTyParamBound("'a") >>

----------------------------------------------------------------------------
\* The predicates of the generics of one declaration (ty_generic_predicates).

\* ty::Predicate on the type ty: a trait reference, an outlives relation.
TraitPredicate(ty, id, arg) ==
    [ p |-> "Trait", ty |-> ty, id |-> id, arg |-> arg, r1 |-> NoRegion, r |-> NoRegion ]
TypeOutlives(ty, r) ==
    [ p |-> "TypeOutlives", ty |-> ty, id |-> 0, arg |-> 0, r1 |-> NoRegion, r |-> r ]
RegionOutlives(r1, r2) ==
    [ p |-> "RegionOutlives", ty |-> TyPath("", 0), id |-> 0, arg |-> 0, r1 |-> r1, r |-> r2 ]

\* The def id of the lang item Sized; the traits of the crate have 1..NItems.
SizedTrait == 0

\* The slice left in the order written.
sort_by_nothing(s) == s

\* sort_by of the slice: a stable sort on the def id of each trait reference.
RECURSIVE sort_by_def_id(_)
sort_by_def_id(s) ==
    IF s = << >> THEN << >>
    ELSE LET m == CHOOSE i \in { s[n].id : n \in 1..Len(s) } :
                     \A n \in 1..Len(s) : i <= s[n].id
         IN SelectSeq(s, LAMBDA b : b.id = m)
            \o sort_by_def_id(SelectSeq(s, LAMBDA b : b.id # m))

\* conv_param_bounds: the bounds partitioned, each converted in the order
\* written.
conv_param_bounds(ast_bounds) ==
    [ builtin_bounds |-> {},
      trait_bounds |-> SelectSeq(ast_bounds, LAMBDA b : b.k = "Trait"),
      region_bounds |-> from_bounds(ast_bounds) ]

\* The diagnostics of add_unsized_bound.
MoreThanOneRelaxed == [ code |-> "E0203", level |-> "error" ]
RelaxedNotDefault == [ code |-> "", level |-> "warning" ]

\* A first loop where every relaxation replaces the one found before.
RECURSIVE find_unbound_last(_, _, _)
find_unbound_last(ast_bounds, i, unbound) ==
    IF i > Len(ast_bounds) THEN [ unbound |-> unbound, diags |-> << >> ]
    ELSE IF ast_bounds[i].k # "Maybe" THEN find_unbound_last(ast_bounds, i + 1, unbound)
    ELSE LET rest == find_unbound_last(ast_bounds, i + 1, Some(ast_bounds[i].id))
         IN IF unbound.some THEN [ rest EXCEPT !.diags = << MoreThanOneRelaxed >> \o @ ]
            ELSE rest

\* The first loop of add_unsized_bound from bound i on: the relaxation found
\* (unbound) and an error for each one met when there is one already.
RECURSIVE find_unbound(_, _, _)
find_unbound(ast_bounds, i, unbound) ==
    IF i > Len(ast_bounds) THEN [ unbound |-> unbound, diags |-> << >> ]
    ELSE IF ast_bounds[i].k # "Maybe" THEN find_unbound(ast_bounds, i + 1, unbound)
    ELSE IF ~unbound.some THEN find_unbound(ast_bounds, i + 1, Some(ast_bounds[i].id))
    ELSE LET rest == find_unbound(ast_bounds, i + 1, unbound)
         IN [ rest EXCEPT !.diags = << MoreThanOneRelaxed >> \o @ ]

\* An add_unsized_bound that takes every relaxation for `?Sized`.
add_unsized_bound_any_relaxes(builtin_bounds, ast_bounds) ==
    LET found == find_unbound(ast_bounds, 1, None)
    IN [ builtin_bounds |-> IF found.unbound.some \/ "sized" \notin lang_items
                            THEN builtin_bounds
                            ELSE builtin_bounds \cup { SizedTrait },
         diags |-> found.diags ]

\* add_unsized_bound: Sized is added unless the first relaxation names it;
\* without the lang item Sized nothing is added.
add_unsized_bound(builtin_bounds, ast_bounds) ==
    LET found == find_unbound(ast_bounds, 1, None)
        kind_id_is_ok == "sized" \in lang_items
    IN IF found.unbound.some
       THEN IF kind_id_is_ok /\ found.unbound.v # SizedTrait
            THEN [ builtin_bounds |-> builtin_bounds \cup { SizedTrait },
                   diags |-> found.diags \o << RelaxedNotDefault >> ]
            ELSE [ builtin_bounds |-> builtin_bounds, diags |-> found.diags ]
       ELSE IF kind_id_is_ok
            THEN [ builtin_bounds |-> builtin_bounds \cup { SizedTrait },
                   diags |-> found.diags ]
            ELSE [ builtin_bounds |-> builtin_bounds, diags |-> found.diags ]

\* compute_bounds: add_unsized_bound is called with SizedByDefault::Yes only;
\* the trait bounds are sorted by def id.
compute_bounds(ast_bounds, by_default) ==
    LET bounds == conv_param_bounds(ast_bounds)
        sized == IF by_default = "Yes"
                 THEN add_unsized_bound(bounds.builtin_bounds, ast_bounds)
                 ELSE [ builtin_bounds |-> bounds.builtin_bounds, diags |-> << >> ]
    IN [ builtin_bounds |-> sized.builtin_bounds,
         trait_bounds |-> sort_by_def_id(bounds.trait_bounds),
         region_bounds |-> bounds.region_bounds,
         diags |-> sized.diags ]

\* astconv::Bounds::predicates: the builtin bounds, the region bounds, then
\* the trait bounds.
BoundsPredicates(bounds, ty) ==
    [ i \in 1..Cardinality(bounds.builtin_bounds) |->
        TraitPredicate(ty, SortedSeq(bounds.builtin_bounds)[i], 0) ]
    \o [ i \in 1..Len(bounds.region_bounds) |-> TypeOutlives(ty, bounds.region_bounds[i]) ]
    \o [ i \in 1..Len(bounds.trait_bounds) |->
           TraitPredicate(ty, bounds.trait_bounds[i].id, bounds.trait_bounds[i].arg) ]

\* ty_generic_predicates, the loop over the bounds of one where predicate.
WhereBoundPredicates(pred) ==
    IF pred.k = "Bound"
    THEN [ i \in 1..Len(pred.bounds) |->
             IF pred.bounds[i].k = "Trait"
             THEN TraitPredicate(pred.bounded_ty, pred.bounds[i].id, pred.bounds[i].arg)
             ELSE TypeOutlives(pred.bounded_ty, ast_region_to_region(pred.bounds[i].l)) ]
    ELSE [ i \in 1..Len(pred.bounds) |->
             RegionOutlives(ast_region_to_region(pred.lifetime),
                            ast_region_to_region(pred.bounds[i])) ]

RECURSIVE WherePredicates(_)
WherePredicates(clause) ==
    IF clause = << >> THEN << >>
    ELSE WhereBoundPredicates(Head(clause)) \o WherePredicates(Tail(clause))

\* ty_generic_predicates for generics with the one type parameter T, no
\* bounds on lifetime parameters and empty base predicates; span_bug on an
\* equality predicate.
ty_generic_predicates(ast_bounds, clause) ==
    IF \E i \in 1..Len(clause) : clause[i].k = "Eq"
    THEN [ ice |-> TRUE, predicates |-> << >>, diags |-> << >> ]
    ELSE LET bounds == compute_bounds(ast_bounds, "Yes")
         IN [ ice |-> FALSE,
              predicates |-> BoundsPredicates(bounds, TyPath(param_id, 0))
                             \o WherePredicates(clause),
              diags |-> bounds.diags ]

\* The bounds and where predicates the generics are drawn from.
TraitArgs == { 0, 1 }
PredicateBounds ==
    { TraitTyParamBound(id, arg) : id \in Nodes, arg \in TraitArgs }
    \cup { RegionTyParamBound("'a") }
PredicateWheres ==
    { BoundPredicate(<< >>, TyPath("T", 0),
                     << TraitTyParamBound(2, 0), TraitTyParamBound(1, 0) >>),
      BoundPredicate(<< >>, TyPath("U", 0), << RegionTyParamBound("'a") >>),
      RegionPredicate("'a", << "'static" >>),
      EqPredicate }

PredicatesInit ==
    /\ kind = [ n \in Nodes |-> "trait" ]
    /\ deps = [ n \in Nodes |-> {} ]
    /\ assoc = NoAssoc
    /\ PassStart
    /\ NoDriver
    /\ NoEnum
    /\ NoImpl
    /\ param_bounds \in SeqsUpTo(PredicateBounds, MaxBounds)
    /\ SizedDefaults
    /\ NoTyGenerics
    /\ where_clause \in SeqsUpTo(PredicateWheres, MaxWhere)
    /\ object_lifetime_default = [ some |-> FALSE, v |-> BaseDefault ]
    /\ result_predicates = [ some |-> FALSE, v |-> << >> ]

\* ty_generic_predicates_for_type_or_impl returns the predicates.
ty_generic_predicates_for_type_or_impl ==
    /\ ice = "none"
    /\ ~result_predicates.some
    /\ LET res == ty_generic_predicates(param_bounds, where_clause)
       IN /\ ~res.ice
          /\ result_predicates' = Some(res.predicates)
          /\ diags' = diags \o res.diags
    /\ UNCHANGED << hir, passvars, drv, prev_disr, disrs, adt_defs,
                    object_lifetime_default, result_generics, impl_step >>

\* ty_generic_predicates meets an equality predicate: span_bug.
ty_generic_predicates_span_bug ==
    /\ ice = "none"
    /\ ~result_predicates.some
    /\ ty_generic_predicates(param_bounds, where_clause).ice
    /\ ice' = "eq_predicate"
    /\ UNCHANGED << hir, diags, fnvars, walk, ctl, ret, stack, caches, nwrites,
                    ncompute, converted, convlog >>

PredicatesNext ==
    \/ ty_generic_predicates_for_type_or_impl
    \/ ty_generic_predicates_span_bug

PredicatesSpec == PredicatesInit /\ [][PredicatesNext]_vars

\* compute_bounds on its own inputs: bound lists with relaxations, for a
\* type parameter (SizedByDefault::Yes) and for the supertraits of a trait
\* (SizedByDefault::No), with and without the lang item Sized.
MaxMarkers == 3
SizedBounds ==
    { MaybeTraitBound(SizedTrait), MaybeTraitBound(1), TraitTyParamBound(1, 0),
      RegionTyParamBound("'a") }

BoundsInit ==
    /\ kind = [ n \in Nodes |-> "trait" ]
    /\ deps = [ n \in Nodes |-> {} ]
    /\ assoc = NoAssoc
    /\ PassStart
    /\ NoDriver
    /\ NoEnum
    /\ NoImpl
    /\ param_bounds \in SeqsUpTo(SizedBounds, MaxMarkers)
    /\ where_clause = << >>
    /\ sized_by_default \in { "Yes", "No" }
    /\ lang_items \in SUBSET { "sized" }
    /\ NoTyGenerics
    /\ object_lifetime_default = [ some |-> FALSE, v |-> BaseDefault ]
    /\ result_predicates = [ some |-> FALSE, v |-> << >> ]

\* compute_bounds returns, and the caller takes the predicates of the bounds.
compute_bounds_call ==
    /\ ice = "none"
    /\ ~result_predicates.some
    /\ LET bounds == compute_bounds(param_bounds, sized_by_default)
       IN /\ result_predicates' = Some(BoundsPredicates(bounds, TyPath(param_id, 0)))
          /\ diags' = diags \o bounds.diags
    /\ UNCHANGED << hir, passvars, drv, prev_disr, disrs, adt_defs,
                    object_lifetime_default, result_generics, impl_step >>

BoundsNext == compute_bounds_call

BoundsSpec == BoundsInit /\ [][BoundsNext]_vars

----------------------------------------------------------------------------
\* The generics of a declaration (ensure_no_ty_param_bounds, ty_generics).

\* The lifetime and the type parameters of one hir::Generics.
MaxParams == 2

\* ensure_no_ty_param_bounds, were the warning emitted in the inner loop.
ensure_no_ty_param_bounds_each(generics) ==
    Concat([ i \in 1..Len(generics.ty_params) |->
               [ j \in 1..Len(SelectSeq(generics.ty_params[i].bounds,
                                        LAMBDA b : b.k \in { "Trait", "Maybe" })) |->
                   [ code |-> "E0122", level |-> "warning" ] ] ])

\* ensure_no_ty_param_bounds: one warning when a type parameter has a bound
\* that is a hir::TraitTyParamBound, with whatever modifier.
ensure_no_ty_param_bounds(generics) ==
    LET warn == \E i \in 1..Len(generics.ty_params) :
                   \E j \in 1..Len(generics.ty_params[i].bounds) :
                       generics.ty_params[i].bounds[j].k \in { "Trait", "Maybe" }
    IN IF warn THEN << [ code |-> "E0122", level |-> "warning" ] >> ELSE << >>

\* early_bound_lifetimes_from_generics: every lifetime, but in FnSpace those
\* resolve_lifetime::early_bound_lifetimes keeps.
early_bound_lifetimes_from_generics(space, generics) ==
    IF space = "FnSpace" THEN SelectSeq(generics.lifetimes, LAMBDA l : l.early)
    ELSE generics.lifetimes

\* The two loops of ty_generics: a definition is pushed into the space for
\* each early-bound lifetime and for each type parameter, with its position
\* as index.  get_or_create_type_parameter_def returns for a parameter the
\* definition made for it at this space and index, cached or not.
push_params(space, generics, result) ==
    LET early_lifetimes == early_bound_lifetimes_from_generics(space, generics)
    IN [ regions |-> [ result.regions EXCEPT ![space] = @ \o
                         [ i \in 1..Len(early_lifetimes) |->
                             RegionParameterDef(space, i - 1, early_lifetimes[i].name) ] ],
         types |-> [ result.types EXCEPT ![space] = @ \o
                       [ i \in 1..Len(generics.ty_params) |->
                           TypeParameterDef(space, i - 1, generics.ty_params[i].name) ] ] ]

\* A ty_generics that starts from empty generics.
ty_generics_from_empty(space, generics, base) == push_params(space, generics, GenericsEmpty)

\* ty_generics: the result starts as a clone of base_generics.
ty_generics(space, generics, base) == push_params(space, generics, base)

ty_generics_for_type_or_impl(generics) == ty_generics("TypeSpace", generics, GenericsEmpty)

\* ty_generics_for_trait: the Self parameter is pushed into SelfSpace.
ty_generics_for_trait(generics) ==
    LET g == ty_generics_for_type_or_impl(generics)
    IN [ g EXCEPT !.types["SelfSpace"] = Append(@, TypeParameterDef("SelfSpace", 0, "Self")) ]

\* The generics of a type alias: type parameters with bounds.
AliasBounds ==
    { TraitTyParamBound(1, 0), MaybeTraitBound(SizedTrait), RegionTyParamBound("'a") }
AliasGenerics ==
    { Generics(<< >>, [ i \in 1..Len(bs) |-> TyParam(i, bs[i]) ]) :
        bs \in SeqsUpTo(SeqsUpTo(AliasBounds, MaxBounds), MaxParams) }

AliasInit ==
    /\ kind = [ n \in Nodes |-> "typed" ]
    /\ deps = [ n \in Nodes |-> {} ]
    /\ assoc = NoAssoc
    /\ PassStart
    /\ NoDriver
    /\ NoEnum
    /\ NoImpl
    /\ param_bounds = << >>
    /\ where_clause = << >>
    /\ SizedDefaults
    /\ ast_generics \in AliasGenerics
    /\ base_generics = GenericsEmpty
    /\ result_generics = [ some |-> FALSE, v |-> GenericsEmpty ]
    /\ object_lifetime_default = [ some |-> FALSE, v |-> BaseDefault ]
    /\ result_predicates = [ some |-> FALSE, v |-> << >> ]

\* The def id of the type alias under conversion.
alias_def_id == CHOOSE n \in Nodes : \A m \in Nodes : n <= m

\* convert_item, ItemTy: ensure_no_ty_param_bounds, then convert_typed_item,
\* which stores the type scheme and the predicates of the alias.
convert_item_ty ==
    /\ ice = "none"
    /\ ~result_generics.some
    /\ diags' = diags \o ensure_no_ty_param_bounds(ast_generics)
    /\ result_generics' = Some(ty_generics_for_type_or_impl(ast_generics))
    /\ tcache' = [ tcache EXCEPT ![alias_def_id] = "ok" ]
    /\ predicates' = [ predicates EXCEPT ![alias_def_id] = GenericPredicates(<< >>) ]
    /\ nwrites' = [ nwrites EXCEPT !["tcache"][alias_def_id] = @ + 1,
                                   !["predicates"][alias_def_id] = @ + 1 ]
    /\ UNCHANGED << hir, drv, walk, ctl, ret, stack, trait_defs, super_predicates,
                    ty_param_defs, ice, ncompute, converted, convlog, prev_disr, disrs,
                    adt_defs, object_lifetime_default, result_predicates, impl_step >>

AliasNext == convert_item_ty

AliasSpec == AliasInit /\ [][AliasNext]_vars

\* The generics of a fn or method and those of its container: a type, an
\* impl or a trait with up to MaxParams lifetime and type parameters.
NamedParams(owner, n) == [ i \in 1..n |-> TyParam(<< owner, i >>, << >>) ]
ContainerGenerics ==
    { Generics([ i \in 1..nl |-> LifetimeDef(<< "container", i >>, TRUE) ],
               NamedParams("container", nt)) : nl \in 0..MaxParams, nt \in 0..MaxParams }
FnGenerics ==
    { Generics([ i \in 1..Len(es) |-> LifetimeDef(<< "fn", i >>, es[i]) ],
               NamedParams("fn", nt)) : es \in SeqsUpTo(BOOLEAN, MaxParams), nt \in 0..MaxParams }

GenericsInit ==
    /\ kind = [ n \in Nodes |-> "typed" ]
    /\ deps = [ n \in Nodes |-> {} ]
    /\ assoc = NoAssoc
    /\ PassStart
    /\ NoDriver
    /\ NoEnum
    /\ NoImpl
    /\ param_bounds = << >>
    /\ where_clause = << >>
    /\ SizedDefaults
    /\ ast_generics \in FnGenerics
    /\ base_generics \in { ty_generics_for_type_or_impl(g) : g \in ContainerGenerics }
                         \cup { ty_generics_for_trait(g) : g \in ContainerGenerics }
    /\ result_generics = [ some |-> FALSE, v |-> GenericsEmpty ]
    /\ object_lifetime_default = [ some |-> FALSE, v |-> BaseDefault ]
    /\ result_predicates = [ some |-> FALSE, v |-> << >> ]

\* ty_generics_for_fn on the generics of the fn and those of its container;
\* ty_generics asserts that the base has no type parameter in the space.
ty_generics_for_fn ==
    /\ ice = "none"
    /\ ~result_generics.some
    /\ IF base_generics.types["FnSpace"] # << >>
       THEN ice' = "types_not_empty_in_space" /\ UNCHANGED result_generics
       ELSE /\ result_generics' = Some(ty_generics("FnSpace", ast_generics, base_generics))
            /\ UNCHANGED ice
    /\ UNCHANGED << hir, drv, diags, walk, ctl, ret, stack, caches, nwrites, ncompute,
                    converted, convlog, prev_disr, disrs, adt_defs,
                    object_lifetime_default, result_predicates, impl_step >>

GenericsNext == ty_generics_for_fn

GenericsSpec == GenericsInit /\ [][GenericsNext]_vars

\* The sequences with the elements of s in another order.
Reordered(s) ==
    { [ i \in 1..Len(s) |-> s[f[i]] ] : f \in Permutations(1..Len(s)) }

\* The predicates returned are those returned for the bounds in any order.
SameInAnyOrder ==
    \A q \in Reordered(param_bounds) :
        ty_generic_predicates(q, where_clause).predicates = result_predicates.v

\* The trait predicates of the inline bounds, which follow the Sized
\* predicate and the outlives predicates, are in the order of the def ids.
InDefIdOrder ==
    LET n == Len(SelectSeq(param_bounds, LAMBDA b : b.k = "Region"))
        m == Len(SelectSeq(param_bounds, LAMBDA b : b.k = "Trait"))
    IN \A i, j \in (n + 2)..(n + m + 1) :
          i < j => result_predicates.v[i].id <= result_predicates.v[j].id

\* No two trait bounds written inline name the same trait.
DistinctTraits ==
    \A i, j \in 1..Len(param_bounds) :
        (i # j /\ param_bounds[i].k = "Trait" /\ param_bounds[j].k = "Trait") =>
            param_bounds[i].id # param_bounds[j].id

----------------------------------------------------------------------------
\* The parameters of an impl must be constrained (convert_item, ItemImpl).

MaxImplPreds == 2
MaxImplItems == 2

\* The generics of the impl: `impl<'a, 'b, T, U>`.
ImplTyParams == << "T", "U" >>
ImplLifetimes == << "'a", "'b" >>

\* ctp::parameters_for_type: the parameters of a type, those inside a
\* projection only on request.
parameters_for_type(ty, include_nonconstraining) ==
    ty.direct \cup (IF include_nonconstraining THEN ty.projected ELSE {})

\* ctp::identify_constrained_type_params: the parameters reached from the
\* input parameters through the projection predicates whose inputs are
\* reached.
RECURSIVE identify_constrained_type_params(_, _)
identify_constrained_type_params(preds, input) ==
    LET more == UNION { parameters_for_type(preds[i].ty, FALSE) :
                          i \in { n \in 1..Len(preds) : preds[n].inputs \subseteq input } }
    IN IF more \subseteq input THEN input
       ELSE identify_constrained_type_params(preds, input \cup more)

\* The input parameters taken from the self type alone.
input_parameters_self_only(d) == parameters_for_type(d.self_ty, FALSE)

\* The parameters of the self type and of the trait reference, when the impl
\* has one.
input_parameters(d) ==
    parameters_for_type(d.self_ty, FALSE)
    \cup (IF d.trait_ref.some THEN parameters_for_type(d.trait_ref.ty, FALSE) ELSE {})

\* report_unused_parameter.
report_unused_parameter(k, name) == [ code |-> "E0207", kind |-> k, name |-> name ]

\* The regions among the parameters of every item of the impl.
lifetimes_in_every_item(d) ==
    { q \in UNION { parameters_for_type(d.impl_items[i].ty, TRUE) :
                      i \in 1..Len(d.impl_items) } :
        q.p = "Region" }

\* The regions among the parameters of the values of the associated types.
lifetimes_in_associated_types(d) ==
    { q \in UNION { parameters_for_type(d.impl_items[i].ty, TRUE) :
                      i \in { n \in 1..Len(d.impl_items) : d.impl_items[n].k = "Type" } } :
        q.p = "Region" }

\* The types, predicates and items the impl is drawn from.
T0 == ParamType(0, "T")
U1 == ParamType(1, "U")
A0 == ParamRegion(0, "'a")
B1 == ParamRegion(1, "'b")
ImplSelfTys == { Ty(S, {}) : S \in SUBSET { T0, A0 } } \cup { Ty({}, { T0 }) }
ImplTraitRefs == { NoTraitRef, TraitRef(Ty({}, {})), TraitRef(Ty({ U1 }, {})),
                   TraitRef(Ty({ B1 }, {})) }
ProjectionPredicate(inputs, ty) == [ inputs |-> inputs, ty |-> ty ]
ImplPredicates ==
    { ProjectionPredicate({ T0 }, Ty({ q }, {})) : q \in { U1, A0, B1 } }
    \cup { ProjectionPredicate({ U1 }, Ty({ q }, {})) : q \in { T0, A0, B1 } }
\* An associated item of the impl: its kind, its name and the parameters of
\* its type.
ImplItem(k, name, ty) == [ k |-> k, name |-> name, ty |-> ty ]
ImplItems ==
    { ImplItem("Method", "m", Ty({ A0 }, {})), ImplItem("Type", "t", Ty({ A0 }, {})),
      ImplItem("Type", "u", Ty({}, { B1 })), ImplItem("Type", "v", Ty({ A0, B1 }, {})) }

\* The impls whose items share names: constants, types and methods named
\* x or y.
ItemNames == { "x", "y" }
NamedImplItems ==
    { ImplItem(k, nm, Ty({}, {})) : k \in { "Const", "Type", "Method" }, nm \in ItemNames }
    \cup { ImplItem("Type", nm, Ty({ A0 }, {})) : nm \in ItemNames }

\* The def id of the impl under conversion.
impl_def_id == CHOOSE n \in Nodes : \A m \in Nodes : n <= m

ImplInit ==
    /\ kind = [ n \in Nodes |-> "impl" ]
    /\ deps = [ n \in Nodes |-> {} ]
    /\ assoc = NoAssoc
    /\ PassStart
    /\ NoDriver
    /\ NoEnum
    /\ NoGenerics
    /\ \E st \in ImplSelfTys, tr \in ImplTraitRefs,
          ps \in SeqsUpTo(ImplPredicates, MaxImplPreds),
          is \in SeqsUpTo(ImplItems, MaxImplItems) :
          impl_def = [ self_ty |-> st, trait_ref |-> tr, predicates |-> ps,
                       impl_items |-> is ]
    /\ impl_step = "params"

\* An impl without predicates, with items that can share names.
ImplItemsInit ==
    /\ kind = [ n \in Nodes |-> "impl" ]
    /\ deps = [ n \in Nodes |-> {} ]
    /\ assoc = NoAssoc
    /\ PassStart
    /\ NoDriver
    /\ NoEnum
    /\ NoGenerics
    /\ \E st \in { Ty({}, {}), Ty({ T0 }, {}) },
          tr \in { NoTraitRef, TraitRef(Ty({}, {})), TraitRef(Ty({ U1 }, {})) },
          is \in SeqsUpTo(NamedImplItems, MaxImplItems) :
          impl_def = [ self_ty |-> st, trait_ref |-> tr, predicates |-> << >>,
                       impl_items |-> is ]
    /\ impl_step = "params"

\* The declared type parameters the check finds unconstrained.
UnusedTyParams ==
    LET constrained == identify_constrained_type_params(impl_def.predicates,
                                                          input_parameters(impl_def))
    IN SelectSeq([ i \in 1..Len(ImplTyParams) |-> i ], LAMBDA i :
                     ParamType(i - 1, ImplTyParams[i]) \notin constrained)

\* An enforce_impl_params_are_constrained that gives up on the impl once a
\* parameter is reported.
enforce_impl_params_are_constrained_abort ==
    /\ impl_step = "params"
    /\ diags' = diags \o [ n \in 1..Len(UnusedTyParams) |->
                             report_unused_parameter("type", ImplTyParams[UnusedTyParams[n]]) ]
    /\ impl_step' = IF UnusedTyParams = << >> THEN "predicates" ELSE "done"
    /\ UNCHANGED << hir, passvars, drv, prev_disr, disrs, adt_defs, generics_out >>

\* enforce_impl_params_are_constrained.
enforce_impl_params_are_constrained ==
    /\ impl_step = "params"
    /\ diags' = diags \o [ n \in 1..Len(UnusedTyParams) |->
                             report_unused_parameter("type", ImplTyParams[UnusedTyParams[n]]) ]
    /\ impl_step' = "predicates"
    /\ UNCHANGED << hir, passvars, drv, prev_disr, disrs, adt_defs, generics_out >>

\* convert_item, ItemImpl: tcx.predicates.insert(def_id, ty_predicates).
convert_impl_predicates ==
    /\ impl_step = "predicates"
    /\ predicates' = [ predicates EXCEPT ![impl_def_id] = GenericPredicates(<< >>) ]
    /\ nwrites' = Bump("predicates", impl_def_id)
    /\ impl_step' = "consts"
    /\ UNCHANGED << hir, drv, walk, ctl, ret, stack, tcache, trait_defs, super_predicates,
                    ty_param_defs, diags, ice, ncompute, converted, convlog, prev_disr,
                    disrs, adt_defs, generics_out >>

\* coherence::report_duplicate_item for the item at index i.
report_duplicate_item(i, name) == [ code |-> "E0201", item |-> i, name |-> name ]

\* The set the first loop looks the name of an item up in, were there one set
\* for all items.
seen_items_one_set(k) == "item"

\* The set the first loop looks the name of an item up in: seen_type_items
\* for an associated type, seen_value_items for a constant or a method.
seen_items(k) == IF k = "Type" THEN "type" ELSE "value"

\* The first loop over impl_items from item i on, `seen` holding the names
\* inserted so far into each set: the diagnostics of the duplicates.
RECURSIVE check_duplicate_items(_, _, _)
check_duplicate_items(items, i, seen) ==
    IF i > Len(items) THEN << >>
    ELSE LET set == seen_items(items[i].k)
             fresh == items[i].name \notin seen[set]
         IN (IF fresh THEN << >> ELSE << report_duplicate_item(i, items[i].name) >>)
            \o check_duplicate_items(items, i + 1,
                                     [ seen EXCEPT ![set] = @ \cup { items[i].name } ])

\* The items of the kinds K, converted in source order and registered in
\* tcx.impl_or_trait_items.
ConvertedItems(K) ==
    LET is == Select([ i \in 1..Len(impl_def.impl_items) |-> impl_def.impl_items[i].k ], K)
    IN [ n \in 1..Len(is) |->
           [ c |-> impl_def_id, i |-> is[n], k |-> impl_def.impl_items[is[n]].k ] ]

\* convert_item, ItemImpl: the first loop over impl_items reports the
\* duplicates and converts the associated constants.
convert_impl_consts ==
    /\ impl_step = "consts"
    /\ diags' = diags \o check_duplicate_items(impl_def.impl_items, 1,
                                               [ set \in { "type", "value", "item" } |-> {} ])
    /\ convlog' = convlog \o ConvertedItems({ "Const" })
    /\ impl_step' = "types"
    /\ UNCHANGED << hir, drv, walk, ctl, ret, stack, caches, ice, nwrites, ncompute,
                    converted, prev_disr, disrs, adt_defs, generics_out >>

\* Whether an associated type of the impl is an error, were it one in every
\* impl.
inherent_type_error_always(d) == TRUE

\* Whether an associated type of the impl is an error: opt_trait_ref.is_none().
inherent_type_error(d) == ~d.trait_ref.some

\* convert_item, ItemImpl: the second loop converts the associated types; in
\* an inherent impl each one is reported.
convert_impl_types ==
    /\ impl_step = "types"
    /\ LET tys == ConvertedItems({ "Type" })
       IN /\ diags' = diags \o
                 [ n \in 1..(IF inherent_type_error(impl_def) THEN Len(tys) ELSE 0) |->
                     [ code |-> "E0202", item |-> tys[n].i,
                       name |-> impl_def.impl_items[tys[n].i].name ] ]
          /\ convlog' = convlog \o tys
    /\ impl_step' = "methods"
    /\ UNCHANGED << hir, drv, walk, ctl, ret, stack, caches, ice, nwrites, ncompute,
                    converted, prev_disr, disrs, adt_defs, generics_out >>

\* A convert_item whose last step is the loop over the associated types.
convert_impl_methods_last ==
    /\ impl_step = "methods"
    /\ impl_step' = "done"
    /\ UNCHANGED << hir, passvars, diags, drv, prev_disr, disrs, adt_defs, generics_out >>

\* convert_item, ItemImpl: the third loop converts the methods.
convert_impl_methods ==
    /\ impl_step = "methods"
    /\ convlog' = convlog \o ConvertedItems({ "Method" })
    /\ impl_step' = "lifetimes"
    /\ UNCHANGED << hir, drv, walk, ctl, ret, stack, caches, diags, ice, nwrites, ncompute,
                    converted, prev_disr, disrs, adt_defs, generics_out >>

\* enforce_impl_lifetimes_are_constrained.
enforce_impl_lifetimes_are_constrained ==
    /\ impl_step = "lifetimes"
    /\ LET constrained == identify_constrained_type_params(impl_def.predicates,
                                                          input_parameters(impl_def))
           unused == SelectSeq([ i \in 1..Len(ImplLifetimes) |-> i ], LAMBDA i :
                        /\ ParamRegion(i - 1, ImplLifetimes[i])
                              \in lifetimes_in_associated_types(impl_def)
                        /\ ParamRegion(i - 1, ImplLifetimes[i]) \notin constrained)
       IN diags' = diags \o [ n \in 1..Len(unused) |->
                                report_unused_parameter("lifetime", ImplLifetimes[unused[n]]) ]
    /\ impl_step' = "done"
    /\ UNCHANGED << hir, passvars, drv, prev_disr, disrs, adt_defs, generics_out >>

ImplNext ==
    \/ enforce_impl_params_are_constrained
    \/ convert_impl_predicates
    \/ convert_impl_consts
    \/ convert_impl_types
    \/ convert_impl_methods
    \/ enforce_impl_lifetimes_are_constrained

ImplSpec == ImplInit /\ [][ImplNext]_vars

ImplItemsSpec == ImplItemsInit /\ [][ImplNext]_vars

\* The parameters of the impl.
ImplParameters == { T0, U1, A0, B1 }

\* C is closed: it has the parameters of the self type and of the trait
\* reference outside projections, and those of the value of every
\* projection predicate whose inputs it has.
ClosedSet(C) ==
    /\ impl_def.self_ty.direct \subseteq C
    /\ impl_def.trait_ref.some => impl_def.trait_ref.ty.direct \subseteq C
    /\ \A i \in 1..Len(impl_def.predicates) :
          impl_def.predicates[i].inputs \subseteq C =>
              impl_def.predicates[i].ty.direct \subseteq C

\* The constrained set: the least closed set.
ConstrainedSet ==
    { q \in ImplParameters : \A C \in SUBSET ImplParameters : ClosedSet(C) => q \in C }

\* The number of unconstrained-parameter diagnostics for the parameter.
Unused(k, name) ==
    Cardinality({ n \in 1..Len(diags) : diags[n] = report_unused_parameter(k, name) })

\* C17: once enforce_impl_params_are_constrained has run, each declared type
\* parameter outside the constrained set has exactly one diagnostic and each
\* one inside has none; for `impl<T, U> Trait for Foo<T>` there is one for
\* U and none for T.
C17_TypeParamsConstrained ==
    impl_step \notin { "none", "params" } =>
       /\ \A i \in 1..Len(ImplTyParams) :
             Unused("type", ImplTyParams[i]) =
                IF ParamType(i - 1, ImplTyParams[i]) \in ConstrainedSet THEN 0 ELSE 1
       /\ (impl_def.self_ty = Ty({ T0 }, {}) /\ impl_def.trait_ref = TraitRef(Ty({}, {}))
              /\ impl_def.predicates = << >>) =>
             (Unused("type", "U") = 1 /\ Unused("type", "T") = 0)

\* `impl<T, U> Trait for Foo<T>` has been checked: one diagnostic, for U.
C17_Witness ==
    /\ impl_step = "predicates"
    /\ impl_def.self_ty = Ty({ T0 }, {}) /\ impl_def.trait_ref = TraitRef(Ty({}, {}))
    /\ impl_def.predicates = << >>
    /\ diags = << report_unused_parameter("type", "U") >>

\* The lifetime occurs in the value of an associated type of the impl.
InAssociatedType(q) ==
    \E i \in 1..Len(impl_def.impl_items) :
        /\ impl_def.impl_items[i].k = "Type"
        /\ q \in impl_def.impl_items[i].ty.direct \cup impl_def.impl_items[i].ty.projected

\* C18: once the impl is converted, a declared lifetime parameter has a
\* diagnostic, and then one, exactly when it occurs in the value of an
\* associated type of the impl and is outside the constrained set.
C18_LifetimesConstrained ==
    impl_step = "done" =>
       \A i \in 1..Len(ImplLifetimes) :
          LET q == ParamRegion(i - 1, ImplLifetimes[i])
          IN Unused("lifetime", ImplLifetimes[i]) =
                IF InAssociatedType(q) /\ q \notin ConstrainedSet THEN 1 ELSE 0

\* An impl with `type X = &'a ..`, where neither 'a nor 'b is constrained and
\* 'b is in no associated type: 'a is reported, 'b is not.
C18_Witness ==
    /\ impl_step = "done"
    /\ ConstrainedSet \cap { A0, B1 } = {}
    /\ InAssociatedType(A0) /\ ~InAssociatedType(B1)
    /\ Unused("lifetime", "'a") = 1 /\ Unused("lifetime", "'b") = 0

----------------------------------------------------------------------------
\* compile_input (driver.rs): the phases of one compilation and the entry
\* points of the CompileController between them.

\* The errors one session can count in the model.
MaxErrs == 2

\* What a phase that reports errors without aborting can add to the count.
Emitted == IF err_count < MaxErrs THEN { 0, 1 } ELSE { 0 }

Phase(name) == [ k |-> "phase", name |-> name ]
Callback(point) == [ k |-> "callback", name |-> point ]

\* session::compile_result_from_err_count.
compile_result_from_err_count(n) == IF n = 0 THEN CompileOk ELSE CompileErr(n)

\* A controller_entry_point! that goes on whatever stop is.
controller_entry_point_ignore_stop(point, phase_result, next) ==
    /\ ran' = IF phase_result.r = "Ok" \/ control[point].run_callback_on_error
              THEN Append(ran, Callback(point))
              ELSE ran
    /\ compile_result' = compile_result
    /\ phase' = next

\* controller_entry_point!: the callback, when the phase succeeded or the
\* controller asks for it on error; then the return when stop is Stop.
controller_entry_point(point, phase_result, next) ==
    /\ ran' = IF phase_result.r = "Ok" \/ control[point].run_callback_on_error
              THEN Append(ran, Callback(point))
              ELSE ran
    /\ IF control[point].stop
       THEN /\ compile_result' = compile_result_from_err_count(err_count)
            /\ phase' = "done"
       ELSE /\ compile_result' = compile_result
            /\ phase' = next

DriverInit ==
    /\ kind = [ n \in Nodes |-> "typed" ]
    /\ deps = [ n \in Nodes |-> {} ]
    /\ assoc = NoAssoc
    /\ PassStart
    /\ NoEnum
    /\ NoGenerics
    /\ NoImpl
    /\ control \in [ EntryPoints -> [ stop : BOOLEAN, run_callback_on_error : BOOLEAN ] ]
    /\ err_count = 0
    /\ phase = "parse"
    /\ ran = << >>
    /\ analysis_result = AnalysisResult(NoResult, FALSE)
    /\ analysis_errs = [ some |-> FALSE, v |-> 0 ]
    /\ compile_result = NoResult

\* phase_1_parse_input: the crate, or a parse error that is emitted before
\* compile_input returns Err(1).
phase_1_parse_input ==
    /\ phase = "parse"
    /\ \/ /\ ran' = Append(ran, Phase("parse"))
          /\ phase' = "after_parse"
          /\ UNCHANGED << err_count, compile_result >>
       \/ /\ err_count' = err_count + 1
          /\ compile_result' = CompileErr(1)
          /\ phase' = "done"
          /\ ran' = Append(ran, Phase("parse"))
    /\ UNCHANGED << hir, passvars, diags, prev_disr, disrs, adt_defs, generics_out,
                    impl_step, analysis_result, analysis_errs >>

after_parse ==
    /\ phase = "after_parse"
    /\ controller_entry_point("after_parse", CompileOk, "expand")
    /\ UNCHANGED << hir, passvars, diags, prev_disr, disrs, adt_defs, generics_out,
                    impl_step, err_count, analysis_result, analysis_errs >>

\* try!(phase_2_configure_and_expand(..)): Err(count) from one of the
\* track_errors steps, Err(0) after describe_lints, or the expanded crate,
\* errors of the untracked steps counted.
phase_2_configure_and_expand ==
    /\ phase = "expand"
    /\ ran' = Append(ran, Phase("expand"))
    /\ \/ \E e \in Emitted :
             /\ err_count' = err_count + e
             /\ phase' = "after_expand"
             /\ compile_result' = compile_result
       \/ /\ err_count' = err_count + 1
          /\ compile_result' = CompileErr(err_count + 1)
          /\ phase' = "done"
       \/ /\ err_count' = err_count
          /\ compile_result' = CompileErr(0)
          /\ phase' = "done"
    /\ UNCHANGED << hir, passvars, diags, prev_disr, disrs, adt_defs, generics_out,
                    impl_step, analysis_result, analysis_errs >>

after_expand ==
    /\ phase = "after_expand"
    /\ controller_entry_point("after_expand", CompileOk, "write_deps")
    /\ UNCHANGED << hir, passvars, diags, prev_disr, disrs, adt_defs, generics_out,
                    impl_step, err_count, analysis_result, analysis_errs >>

\* assign_node_ids, lower_crate, make_map, write_out_deps.
write_out_deps ==
    /\ phase = "write_deps"
    /\ ran' = Append(ran, Phase("write_deps"))
    /\ phase' = "after_write_deps"
    /\ UNCHANGED << hir, passvars, diags, prev_disr, disrs, adt_defs, generics_out,
                    impl_step, err_count, analysis_result, analysis_errs, compile_result >>

after_write_deps ==
    /\ phase = "after_write_deps"
    /\ controller_entry_point("after_write_deps", CompileOk, "early_lints")
    /\ UNCHANGED << hir, passvars, diags, prev_disr, disrs, adt_defs, generics_out,
                    impl_step, err_count, analysis_result, analysis_errs >>

\* Attribute checking and the early lint checks: errors without a return.
early_lint_checks ==
    /\ phase = "early_lints"
    /\ \E e \in Emitted : err_count' = err_count + e
    /\ ran' = Append(ran, Phase("early_lints"))
    /\ phase' = "analysis"
    /\ UNCHANGED << hir, passvars, diags, prev_disr, disrs, adt_defs, generics_out,
                    impl_step, analysis_result, analysis_errs, compile_result >>

\* phase_3_run_analysis_passes up to TyCtxt::create_and_enter: resolution and
\* the checks on the HIR report errors and go on; language item collection,
\* lifetime resolution and static recursion checking return Err through try!,
\* f is not called and compile_input returns that Err.
phase_3_resolution ==
    /\ phase = "analysis"
    /\ ran' = Append(ran, Phase("analysis"))
    /\ \/ \E e \in Emitted :
             /\ err_count' = err_count + e
             /\ phase' = "typeck"
             /\ UNCHANGED << analysis_errs, compile_result >>
       \/ /\ err_count' = err_count + 1
          /\ analysis_errs' = [ some |-> TRUE, v |-> err_count + 1 ]
          /\ compile_result' = CompileErr(err_count + 1)
          /\ phase' = "done"
    /\ UNCHANGED << hir, passvars, diags, prev_disr, disrs, adt_defs, generics_out,
                    impl_step, analysis_result >>

\* try_with_f!(typeck::check_crate(tcx, trait_map), ..): on Err(x) f is called
\* with Err(x) and phase_3_run_analysis_passes returns Err(x).
phase_3_typeck ==
    /\ phase = "typeck"
    /\ \/ /\ phase' = "checks"
          /\ UNCHANGED << err_count, analysis_result, analysis_errs >>
       \/ /\ err_count' = err_count + 1
          /\ analysis_result' = AnalysisResult(CompileErr(err_count + 1), TRUE)
          /\ analysis_errs' = [ some |-> TRUE, v |-> err_count + 1 ]
          /\ phase' = "after_analysis"
    /\ UNCHANGED << hir, passvars, diags, prev_disr, disrs, adt_defs, generics_out,
                    impl_step, ran, compile_result >>

\* Const checking .. borrow checking, then `if sess.err_count() > 0`: f is
\* called with Err(sess.err_count()).
phase_3_checks ==
    /\ phase = "checks"
    /\ \E e \in Emitted :
          /\ err_count' = err_count + e
          /\ IF err_count + e > 0
             THEN /\ analysis_result' = AnalysisResult(CompileErr(err_count + e), FALSE)
                  /\ analysis_errs' = [ some |-> TRUE, v |-> err_count + e ]
                  /\ phase' = "after_analysis"
             ELSE /\ phase' = "lints"
                  /\ UNCHANGED << analysis_result, analysis_errs >>
    /\ UNCHANGED << hir, passvars, diags, prev_disr, disrs, adt_defs, generics_out,
                    impl_step, ran, compile_result >>

\* A phase_3_run_analysis_passes without the second look at the error count.
phase_3_lints_unchecked ==
    /\ phase = "lints"
    /\ \E e \in Emitted :
          /\ err_count' = err_count + e
          /\ analysis_result' = AnalysisResult(CompileOk, FALSE)
          /\ analysis_errs' = [ some |-> TRUE, v |-> err_count + e ]
    /\ phase' = "after_analysis"
    /\ UNCHANGED << hir, passvars, diags, prev_disr, disrs, adt_defs, generics_out,
                    impl_step, ran, compile_result >>

\* Reachability, death, stability and lint checking ("generate errors w/o
\* aborting"), then `if sess.err_count() > 0`: f is called with
\* Err(sess.err_count()), with Ok(()) otherwise.
phase_3_lints ==
    /\ phase = "lints"
    /\ \E e \in Emitted :
          /\ err_count' = err_count + e
          /\ analysis_result' =
                AnalysisResult(IF err_count + e > 0 THEN CompileErr(err_count + e)
                               ELSE CompileOk, FALSE)
          /\ analysis_errs' = [ some |-> TRUE, v |-> err_count + e ]
    /\ phase' = "after_analysis"
    /\ UNCHANGED << hir, passvars, diags, prev_disr, disrs, adt_defs, generics_out,
                    impl_step, ran, compile_result >>

\* The closure compile_input hands to phase_3_run_analysis_passes, up to
\* try!(result), and what try!(try!(..)) makes of its value: the callback of
\* after_analysis, Err(0) when stop is Stop, the Err of the analysis.
after_analysis ==
    /\ phase = "after_analysis"
    /\ ran' = Append(ran, Callback("after_analysis"))
    /\ IF analysis_result.discarded
       THEN /\ compile_result' = CompileErr(analysis_result.n)
            /\ phase' = "done"
       ELSE IF control["after_analysis"].stop
       THEN /\ compile_result' = CompileErr(0)
            /\ phase' = "done"
       ELSE IF analysis_result.r = "Err"
       THEN /\ compile_result' = CompileErr(analysis_result.n)
            /\ phase' = "done"
       ELSE /\ compile_result' = compile_result
            /\ phase' = "trans"
    /\ UNCHANGED << hir, passvars, diags, prev_disr, disrs, adt_defs, generics_out,
                    impl_step, err_count, analysis_result, analysis_errs >>

\* phase_4_translate_to_llvm, called by the closure after try!(result).
phase_4_translate_to_llvm ==
    /\ phase = "trans"
    /\ \E e \in Emitted : err_count' = err_count + e
    /\ ran' = Append(ran, Phase("translation"))
    /\ phase' = "llvm"
    /\ UNCHANGED << hir, passvars, diags, prev_disr, disrs, adt_defs, generics_out,
                    impl_step, analysis_result, analysis_errs, compile_result >>

\* phase_5_run_llvm_passes; its result is Err(sess.err_count()) when the
\* session has counted an error.
phase_5_run_llvm_passes ==
    /\ phase = "llvm"
    /\ \E e \in Emitted : err_count' = err_count + e
    /\ ran' = Append(ran, Phase("llvm"))
    /\ phase' = "after_llvm"
    /\ UNCHANGED << hir, passvars, diags, prev_disr, disrs, adt_defs, generics_out,
                    impl_step, analysis_result, analysis_errs, compile_result >>

\* controller_entry_point!(after_llvm, .., phase5_result); try!(phase5_result).
after_llvm ==
    /\ phase = "after_llvm"
    /\ LET phase5_result == compile_result_from_err_count(err_count)
       IN IF ~control["after_llvm"].stop /\ phase5_result.r = "Err"
          THEN /\ ran' = IF control["after_llvm"].run_callback_on_error
                         THEN Append(ran, Callback("after_llvm"))
                         ELSE ran
               /\ compile_result' = phase5_result
               /\ phase' = "done"
          ELSE controller_entry_point("after_llvm", phase5_result, "link")
    /\ UNCHANGED << hir, passvars, diags, prev_disr, disrs, adt_defs, generics_out,
                    impl_step, err_count, analysis_result, analysis_errs >>

\* phase_6_link_output; compile_input returns Ok(()).
phase_6_link_output ==
    /\ phase = "link"
    /\ ran' = Append(ran, Phase("link"))
    /\ compile_result' = CompileOk
    /\ phase' = "done"
    /\ UNCHANGED << hir, passvars, diags, prev_disr, disrs, adt_defs, generics_out,
                    impl_step, err_count, analysis_result, analysis_errs >>

DriverNext ==
    \/ phase_1_parse_input
    \/ after_parse
    \/ phase_2_configure_and_expand
    \/ after_expand
    \/ write_out_deps
    \/ after_write_deps
    \/ early_lint_checks
    \/ phase_3_resolution
    \/ phase_3_typeck
    \/ phase_3_checks
    \/ phase_3_lints
    \/ after_analysis
    \/ phase_4_translate_to_llvm
    \/ phase_5_run_llvm_passes
    \/ after_llvm
    \/ phase_6_link_output

DriverSpec == DriverInit /\ [][DriverNext]_vars

\* The phases that come after the analysis passes.
LaterPhases == { Phase("translation"), Phase("llvm"), Phase("link") }

\* C22: when the session has counted an error by the end of the analysis
\* passes, neither translation to LLVM nor the LLVM passes nor linking ever
\* run, and the result of compile_input is an Err.
C22_ErrorsGateTranslation ==
    (analysis_errs.some /\ analysis_errs.v > 0) =>
        /\ Range(ran) \cap LaterPhases = {}
        /\ phase \notin { "trans", "llvm", "after_llvm", "link" }
        /\ phase = "done" => compile_result.r = "Err"

\* The analysis passes ran to their end, the lints after borrow checking
\* reported the first error of the session, and compile_input has returned.
C22_Witness ==
    /\ phase = "done"
    /\ analysis_errs.some /\ analysis_errs.v > 0
    /\ ~analysis_result.discarded /\ analysis_result.r = "Err"
    /\ ~control["after_analysis"].stop
    /\ Phase("analysis") \in Range(ran)
    /\ compile_result = CompileErr(err_count)

----------------------------------------------------------------------------
\* Properties of cycle_check.

LastDiag == diags[Len(diags)]

IsCycleCheck(f) == f.fn = "cycle_check"

\* The requests of the cycle_check calls in progress, outermost first.
ReqsInProgress ==
    LET cc == SelectSeq(ctl, IsCycleCheck)
    IN [ i \in 1..Len(cc) |-> cc[i].req ]

\* C1: when cycle_check is called with a request that is already on the
\* stack, the closure is not run (no frame is pushed, no cache is touched,
\* nothing is computed), exactly one E0391 diagnostic is emitted, the call
\* returns Err without aborting, and the stack is what it was.
C1_CycleReported ==
    [][ (Calling /\ NextReq(Top) \in Range(stack)) =>
          /\ Len(diags') = Len(diags) + 1
          /\ SubSeq(diags', 1, Len(diags)) = diags
          /\ diags'[Len(diags')].code = "E0391"
          /\ ret' = Err
          /\ ice' = "none"
          /\ stack' = stack
          /\ Len(ctl') = Len(ctl)
          /\ UNCHANGED << caches, ncompute, nwrites >> ]_vars

\* cycle_check has just returned Err for a request that was on the stack below
\* the top: the chain reported is the segment of the stack from the request up.
C1_Witness ==
    /\ Running /\ Top.wait /\ ret = Err
    /\ diags # << >>
    /\ LET ch == LastDiag.chain
       IN /\ Len(ch) >= 2
          /\ Len(stack) > Len(ch)
          /\ ch = SubSeq(stack, Len(stack) - Len(ch) + 1, Len(stack))

\* C2: when cycle_check is called with a request r that is not on the stack,
\* the closure is started once with r pushed on top of the stack; r stays at
\* its place on the stack for as long as the closure runs; when the closure
\* returns, cycle_check returns the closure's result (Ok or Err) and the stack
\* is again the stack of the time of the call.
C2_BodyRunOnce ==
    /\ [](stack = ReqsInProgress)
    /\ [][ /\ (Calling /\ NextReq(Top) \notin Range(stack)) =>
                /\ stack' = Append(stack, NextReq(Top))
                /\ Len(ctl') = Len(ctl) + 2
                /\ ctl'[Len(ctl')] = Body(NextReq(Top))
                /\ IsCycleCheck(ctl'[Len(ctl) + 1])
                /\ ctl'[Len(ctl) + 1].req = NextReq(Top)
                /\ ctl'[Len(ctl) + 1].saved = stack
                /\ diags' = diags
           /\ (Running /\ IsCycleCheck(Top)) =>
                /\ ret.r \in { "Ok", "Err" }
                /\ ret' = ret
                /\ stack = Append(Top.saved, Top.req)
                /\ stack' = Top.saved
                /\ ctl' = Below ]_vars

\* A closure that failed (the cycle was found deeper, the diagnostic is not of
\* this call) is about to return through cycle_check with a non-empty stack
\* below it.
C2_Witness ==
    /\ Running /\ IsCycleCheck(Top)
    /\ ret = Err
    /\ Top.saved # << >>
    /\ diags # << >>
    /\ Top.req \in Range(LastDiag.chain)

\* C3: the pass terminates on every crate: no request is on the stack twice,
\* so the depth of the recursion is bounded by the number of requests, and
\* collect_item_types finishes with every cycle_check call returned.
C3_Terminates ==
    /\ [](\A i, j \in 1..Len(stack) : stack[i] = stack[j] => i = j)
    /\ <>Done

\* The pass is over and it reported a cycle through requests of two kinds.
C3_Witness ==
    /\ Done
    /\ \E n \in 1..Len(diags) :
          \E i, j \in 1..Len(diags[n].chain) :
              diags[n].chain[i].k # diags[n].chain[j].k

----------------------------------------------------------------------------
\* Properties of the type-scheme cache.

\* C4: when type_scheme_of_item is asked for an item whose scheme is in
\* tcache, it returns the stored scheme, compute_type_scheme_of_item does not
\* run and no cache changes.
C4_MemoHit ==
    [][ (Running /\ Top.fn = "type_scheme_of_item" /\ Top.ph = "start"
                 /\ tcache[Top.id] # "none") =>
          /\ ret' = Ok(tcache[Top.id])
          /\ ctl' = Below
          /\ UNCHANGED << caches, ncompute, nwrites >> ]_vars

\* get_item_type_scheme has returned the stored scheme of an item that was
\* converted earlier in the walk; the scheme was computed once.
C4_Witness ==
    /\ Running /\ IsCycleCheck(Top)
    /\ Top.req.k = "GetItemTypeScheme"
    /\ Top.req.id \in Range(converted)
    /\ ret = Ok(tcache[Top.req.id])
    /\ ncompute[Top.req.id] = 1
    /\ nwrites["tcache"][Top.req.id] = 1

\* C5: in every pass the tcache entry of each item is written at most once
\* and compute_type_scheme_of_item runs at most once for each item.
C5_WrittenOnce ==
    \A n \in Nodes :
        /\ nwrites["tcache"][n] <= 1
        /\ kind[n] = "typed" => ncompute[n] <= 1

\* compute_type_scheme_of_item is running for item d.
Computing(d) ==
    \E i \in 1..Len(ctl) :
        ctl[i].fn = "type_scheme_of_item" /\ ctl[i].id = d /\ ctl[i].ph = "compute"

\* C6: a get_item_type_scheme request for d made while the scheme of d is
\* being computed (whoever started the computation) returns Err and does not
\* start the computation again; tcache holds no scheme of an item before a
\* computation for it has run to its end.
C6_NestedRequestFails ==
    /\ [](\A n \in Nodes :
             (kind[n] = "typed" /\ tcache[n] # "none") =>
                 ncompute[n] > Cardinality({ i \in 1..Len(ctl) :
                                               /\ ctl[i].fn = "type_scheme_of_item"
                                               /\ ctl[i].id = n
                                               /\ ctl[i].ph = "compute" }))
    /\ [][ (Calling /\ NextReq(Top).k = "GetItemTypeScheme"
                    /\ Computing(NextReq(Top).id)) =>
             /\ ret' = Err
             /\ Len(ctl') = Len(ctl)
             /\ ncompute' = ncompute ]_vars

----------------------------------------------------------------------------
\* Properties of the whole pass.

ChainIds(d) == { d.chain[i].id : i \in 1..Len(d.chain) }

\* C7: when the pass is over, for two traits A and B that name each other as
\* supertrait there is exactly one diagnostic for their cycle, and its chain
\* has the two elements A and B.
C7_OneDiagPerCycle ==
    Done =>
      \A a, b \in Nodes :
          (a < b /\ kind[a] = "trait" /\ kind[b] = "trait"
                 /\ b \in deps[a] /\ a \in deps[b]) =>
             /\ Cardinality({ n \in 1..Len(diags) : ChainIds(diags[n]) = { a, b } }) = 1
             /\ \A n \in 1..Len(diags) :
                   ChainIds(diags[n]) = { a, b } => Len(diags[n].chain) = 2

\* C8: a cycle error does not stop the pass: no step aborts, and whenever
\* visit_item has returned, convert_item has run to its end for every item
\* visited so far; at the end of the pass that is every item of the crate.
C8_PassContinues ==
    /\ ice = "none"
    /\ ctl = << >> => converted = SubSeq(krate, 1, walk - 1)
    /\ Done => converted = krate

\* The first item of the crate is a trait on a supertrait cycle; the cycle was
\* reported and all the items, the later ones too, were converted.
C8_Witness ==
    /\ Done
    /\ Len(krate) = NItems
    /\ converted = krate
    /\ kind[krate[1]] = "trait" /\ krate[1] \in deps[krate[1]]
    /\ diags # << >>
    /\ ChainIds(diags[1]) = { krate[1] }

\* The traits t reaches through one or more supertrait bounds.
RECURSIVE SupersClosure(_)
SupersClosure(S) ==
    LET T == S \cup UNION { Supers(x) : x \in S }
    IN IF T = S THEN S ELSE SupersClosure(T)

SupersPlus(t) == SupersClosure(Supers(t))

\* Trait t is on a supertrait cycle or has a supertrait, direct or not, that is.
ReachesCycle(t) == \E c \in SupersPlus(t) \cup { t } : c \in SupersPlus(c)

Rank(k) == CASE k = "Const" -> 1 [] k = "Type" -> 2 [] k \in Methods -> 3

\* C10: in a trait and in an impl, whatever the source order of the
\* associated items, no associated type is converted before an associated
\* constant and no method before an associated type or constant; when
\* convert_item has returned, every associated item has been converted once.
C10_ConstsTypesMethods ==
    /\ \A i, j \in 1..Len(convlog) :
          (i < j /\ convlog[i].c = convlog[j].c) =>
              Rank(convlog[i].k) <= Rank(convlog[j].k)
    /\ \A n \in Range(converted) :
          \A i \in 1..Len(assoc[n]) :
              Cardinality({ e \in 1..Len(convlog) :
                               convlog[e] = [ c |-> n, i |-> i, k |-> assoc[n][i] ] }) = 1

\* An impl whose items are, in source order, a method, a type and a constant
\* has been converted.
C10_Witness ==
    \E n \in Range(converted) :
        /\ kind[n] = "impl"
        /\ assoc[n] = << "Method", "Type", "Const" >>
        /\ Len(convlog) = 3

----------------------------------------------------------------------------
\* Methods that name Self::T.

\* The nodes n reaches through one or more references.
RECURSIVE DepsClosure(_)
DepsClosure(S) ==
    LET T == S \cup UNION { deps[x] : x \in S }
    IN IF T = S THEN S ELSE DepsClosure(T)

\* No declaration of the crate refers, directly or not, to itself.
AcyclicCrate == \A n \in Nodes : n \notin DepsClosure(deps[n])

\* C11: converting a trait with an associated constant, an associated type
\* and a method that names Self::T reports no cycle through the method: no
\* diagnostic has the bounds of a trait's Self in its chain, and a crate in
\* which no declaration refers back to itself gets no cycle diagnostic at all.
C11_NoSpuriousCycle ==
    /\ \A n \in 1..Len(diags) :
          \A i \in 1..Len(diags[n].chain) :
              ~(diags[n].chain[i].k = "GetTypeParameterBounds"
                  /\ kind[diags[n].chain[i].id] = "trait")
    /\ AcyclicCrate => diags = << >>

\* The bounds of Self are being looked up for a method of a trait whose
\* constant and type are converted; the request is the only one on the stack.
C11_Witness ==
    /\ Running /\ Top.fn = "get_type_parameter_bounds"
    /\ kind[Top.id] = "trait"
    /\ stack = << Req("GetTypeParameterBounds", Top.id) >>
    /\ { assoc[Top.id][i] : i \in 1..Len(assoc[Top.id]) } = { "Const", "Type", "MethodSelf" }
    /\ Len(convlog) = 3
    /\ diags = << >>

----------------------------------------------------------------------------
\* Properties of the predicates cache.

\* The number of inserts into tcx.predicates for associated item i of c:
\* convert_associated_const and convert_method insert, convert_associated_type
\* does not.
AssocPredicateInserts(c, i) ==
    Cardinality({ n \in 1..Len(convlog) :
                    /\ convlog[n].c = c /\ convlog[n].i = i
                    /\ convlog[n].k \in { "Const" } \cup Methods })

C20_SelfPredicate ==
    \A t \in Nodes : kind[t] = "trait" =>
        /\ t \in Range(converted) => predicates[t].some
        /\ predicates[t].some =>
              \E i \in 1..Len(predicates[t].selfspace) : predicates[t].selfspace[i] = t

\* A trait with a supertrait other than itself has been converted: its
\* SelfSpace predicates are those of the supertrait and of the trait.
C20_Witness ==
    \E t, u \in Nodes :
        /\ t # u /\ kind[t] = "trait" /\ kind[u] = "trait" /\ u \in deps[t]
        /\ t \in Range(converted)
        /\ predicates[t] = GenericPredicates(<< u, t >>)

----------------------------------------------------------------------------
\* Properties of the super-predicates cache.

----------------------------------------------------------------------------
\* Properties of the request stack.

\* C23: the chain of a cycle diagnostic is the segment of the request stack
\* from the stacked request equal to the new request up to the top of the
\* stack, in the order of the pushes; the notes name the repeated request as
\* the beginning of the cycle and again as its completion, the requests
\* between are named once each in the order of the chain; the chain is never
\* empty.
C23_ChainNarrated ==
    [][ (Calling /\ FindRequest(stack, NextReq(Top)) # 0) =>
          LET r == NextReq(Top)
              d == diags'[Len(diags')]
          IN /\ Len(diags') = Len(diags) + 1
             /\ d.chain # << >>
             /\ d.chain[1] = r
             /\ \A j \in 2..Len(d.chain) : d.chain[j] # r
             /\ d.chain = SubSeq(stack, Len(stack) - Len(d.chain) + 1, Len(stack))
             /\ Len(d.notes) = Len(d.chain) + 1
             /\ d.notes[1] = Note("begins", r)
             /\ \A j \in 2..Len(d.chain) : d.notes[j] = Note("requires", d.chain[j])
             /\ d.notes[Len(d.notes)] = Note("completing", r) ]_vars

\* A cycle through requests of two kinds was reported: the chain has a
\* request above the repeated one, of another kind, and the repeated request
\* is not at the bottom of the stack.
C23_Witness ==
    /\ Running /\ Top.wait /\ ret = Err
    /\ diags # << >>
    /\ LET d == LastDiag
       IN /\ Len(d.chain) >= 2
          /\ d.chain[1].k # d.chain[2].k
          /\ Len(stack) > Len(d.chain)
          /\ d.chain = SubSeq(stack, Len(stack) - Len(d.chain) + 1, Len(stack))
          /\ d.notes[Len(d.notes)].request = d.chain[1]

\* C24: cycle_check is reentrant.  At every moment the stack is the sequence
\* of the requests of the cycle_check calls whose closure is running,
\* outermost first, and the function running right above a cycle_check frame
\* is the closure of that frame's request.  A cycle_check called from inside
\* a closure with a request that is not on the stack pushes the request above
\* the ones in progress, starts its own closure and reports nothing.
C24_Reentrant ==
    /\ [](/\ stack = ReqsInProgress
          /\ \A i \in 1..(Len(ctl) - 1) :
                IsCycleCheck(ctl[i]) =>
                    /\ ctl[i + 1].fn = Body(ctl[i].req).fn
                    /\ ctl[i + 1].id = ctl[i].req.id)
    /\ [][ (Calling /\ stack # << >> /\ FindRequest(stack, NextReq(Top)) = 0) =>
             /\ SubSeq(stack', 1, Len(stack)) = stack
             /\ stack' = stack \o << NextReq(Top) >>
             /\ ctl'[Len(ctl')] = Body(NextReq(Top))
             /\ ret' # Err
             /\ diags' = diags ]_vars

\* Three cycle_check calls are nested, the closure of the innermost has just
\* been started, and no cycle has been reported.
C24_Witness ==
    /\ Running
    /\ Len(stack) = 3
    /\ Len(ctl) >= 2
    /\ IsCycleCheck(ctl[Len(ctl) - 1])
    /\ Top = Body(stack[3])
    /\ ret = NoRet
    /\ diags = << >>

\* AstConvRequest: the requests there are for the nodes of the crate.
AllRequests ==
    { Req(k, n) : k \in { "GetItemTypeScheme", "GetTraitDef", "EnsureSuperPredicates",
                          "GetTypeParameterBounds" },
                  n \in Nodes }

\* C25: no two entries of the request stack are equal, so the stack is never
\* deeper than there are distinct requests.
C25_NoDuplicateRequest ==
    /\ Cardinality(Range(stack)) = Len(stack)
    /\ Range(stack) \subseteq AllRequests
    /\ Len(stack) <= Cardinality(AllRequests)

\* cycle_check is about to be called with the request at the bottom of a
\* stack of three.
C25_Witness ==
    /\ Calling
    /\ Len(stack) = 3
    /\ NextReq(Top) = stack[1]

\* C26: the request stack is empty whenever visit_item calls convert_item
\* for an item of the crate and whenever that call returns, the calls that
\* reported a cycle included: every push was undone by the pop of the same
\* cycle_check call.
C26_StackEmptyBetweenItems ==
    /\ ctl = << >> => stack = << >>
    /\ (Len(ctl) = 1 /\ Top.fn = "convert_item") => stack = << >>
    /\ (ctl = << >> /\ walk > 1) => Len(converted) = walk - 1

\* convert_item has returned for the first item, whose conversion reported a
\* cycle of two or more requests, and the walk has another item to convert.
C26_Witness ==
    /\ ice = "none"
    /\ ctl = << >>
    /\ stack = << >>
    /\ walk = 2 /\ walk <= Len(krate)
    /\ Len(converted) = 1
    /\ diags # << >>
    /\ Len(diags[1].chain) >= 2

----------------------------------------------------------------------------
\* More properties of the super-predicates cache.

\* convert_item on trait t is about to call convert_trait_predicates.
AtConvertTraitPredicates ==
    /\ Running
    /\ Top.fn = "convert_item" /\ Top.ph = "ensure" /\ Top.todo = << >>

\* C27: when convert_trait_predicates looks up the super-predicates of the
\* trait convert_item is converting, tcx.super_predicates holds an entry for
\* it, also when ensure_super_predicates has just returned Err for a cycle
\* and convert_item dropped the result; the lookup never fails.
C27_SuperPredicatesPresent ==
    /\ ice # "lookup_super_predicates"
    /\ AtConvertTraitPredicates =>
          /\ Top.wait
          /\ ret.r \in { "Ok", "Err" }
          /\ super_predicates[Top.id] = Stored(Supers(Top.id))

\* ensure_super_predicates returned Err to convert_item for a trait that is
\* not on the cycle reported, and the entry of the trait is there.
C27_Witness ==
    /\ AtConvertTraitPredicates
    /\ ret = Err
    /\ Top.id \notin ChainIds(LastDiag)
    /\ super_predicates[Top.id].some

\* The frames of ctl in which ensure_super_predicates_step computes the
\* super-predicates of trait n.
StepsComputing(n) ==
    { i \in 1..Len(ctl) : /\ ctl[i].fn = "ensure_super_predicates"
                          /\ ctl[i].id = n
                          /\ ctl[i].ph = "bounds" }

\* C28: the entry of a trait in tcx.super_predicates is written at most once
\* in a pass, traits on a supertrait cycle included.
\* ensure_super_predicates_step computes only while there is no entry, and it
\* runs inside the closure of an EnsureSuperPredicates request for the same
\* trait, so that the request is on the stack for the whole computation and
\* the step is not entered again for that trait before the entry is stored.
C28_SuperPredicatesWrittenOnce ==
    /\ \A n \in Nodes :
          /\ nwrites["super_predicates"][n] <= 1
          /\ nwrites["super_predicates"][n] = IF super_predicates[n].some THEN 1 ELSE 0
          /\ Cardinality(StepsComputing(n)) <= 1
          /\ StepsComputing(n) # {} => ~super_predicates[n].some
    /\ \A i \in 1..Len(ctl) :
          ctl[i].fn = "ensure_super_predicates" =>
              /\ i > 1
              /\ IsCycleCheck(ctl[i - 1])
              /\ ctl[i - 1].req = Req("EnsureSuperPredicates", ctl[i].id)
              /\ ctl[i - 1].req \in Range(stack)

\* The pass is over for a crate with two traits that are supertraits of each
\* other; ensure_super_predicates ran from each of them and each entry was
\* written once.
C28_Witness ==
    /\ Done
    /\ \E a, b \in Nodes :
          /\ a # b
          /\ kind[a] = "trait" /\ kind[b] = "trait"
          /\ b \in Supers(a) /\ a \in Supers(b)
          /\ nwrites["super_predicates"][a] = 1
          /\ nwrites["super_predicates"][b] = 1
          /\ Len(diags) >= 2

----------------------------------------------------------------------------
\* Properties of the trait-definition cache.

\* C29: the definition of a trait is computed and interned at most once in a
\* pass: tcx.trait_defs is written at most once for each trait and the
\* computation in trait_def_of_item runs at most once for each trait, also
\* when a default of a type parameter of the trait leads back to the trait.
C29_TraitDefInternedOnce ==
    \A n \in Nodes :
        kind[n] = "trait" =>
            /\ nwrites["trait_defs"][n] <= 1
            /\ ncompute[n] <= 1

----------------------------------------------------------------------------
\* Properties of the type-parameter-definition cache.

\* C30: the entry of a type parameter in tcx.ty_param_defs is written at most
\* once in a pass, the Self parameter of a trait (stored under the node id of
\* the trait) included, also when a default of a type parameter leads back to
\* the declaration under conversion.
C30_ParamDefWrittenOnce ==
    \A n \in Nodes : nwrites["ty_param_defs"][n] <= 1

----------------------------------------------------------------------------
\* Properties of convert_item on an impl.

\* How many times the item at index i has been converted and registered.
ItemConversions(i) == Cardinality({ n \in 1..Len(convlog) : convlog[n].i = i })

\* Every associated item of the impl has been converted, once.
AllItemsConverted == \A i \in 1..Len(impl_def.impl_items) : ItemConversions(i) = 1

\* C31 as stated: whenever the check of the type parameters has run, and
\* whenever the check of the lifetime parameters has run, every associated
\* constant, associated type and method of the impl has been converted.
C31_BothChecksAfterItems ==
    /\ impl_step \notin { "none", "params" } => AllItemsConverted
    /\ impl_step = "done" => AllItemsConverted

\* C31: the check of the lifetime parameters runs after every associated
\* constant, associated type and method of the impl has been converted; the
\* check of the type parameters runs before the predicates of the impl are
\* stored and before any associated item is converted.
C31_LifetimeCheckAfterItems ==
    /\ impl_step = "done" => AllItemsConverted
    /\ impl_step \in { "none", "params" } =>
          (convlog = << >> /\ ~predicates[impl_def_id].some)
    /\ impl_step = "predicates" => (convlog = << >> /\ ~predicates[impl_def_id].some)

\* An impl with an associated type and a method is converted: both checks
\* have reported a parameter, both items are converted.
C31_Witness ==
    /\ impl_step = "done"
    /\ Len(impl_def.impl_items) = 2
    /\ impl_def.impl_items[1].k = "Method" /\ impl_def.impl_items[2].k = "Type"
    /\ convlog = << [ c |-> impl_def_id, i |-> 2, k |-> "Type" ],
                    [ c |-> impl_def_id, i |-> 1, k |-> "Method" ] >>
    /\ Unused("type", "U") = 1 /\ Unused("lifetime", "'a") = 1

----------------------------------------------------------------------------
\* Properties of ty_generic_predicates on an equality predicate.

\* The where clause has an equality predicate.
HasEqPredicate == \E i \in 1..Len(where_clause) : where_clause[i].k = "Eq"

\* C32: an equality predicate in the where clause is a user error the pass
\* recovers from: the pass is not aborted, and once ty_generic_predicates has
\* returned for such generics, a predicate set is there and the error is
\* reported.
C32_EqualityRecoverable ==
    /\ ice = "none"
    /\ (HasEqPredicate /\ result_predicates.some) => diags # << >>

----------------------------------------------------------------------------
\* More properties of convert_item on an impl.

\* The unconstrained-parameter diagnostics emitted so far.
UnusedReports == { n \in 1..Len(diags) : diags[n].code = "E0207" }

\* C33: whatever number of unconstrained type and lifetime parameters were
\* reported, the predicates of the impl are stored, once, as soon as the
\* check of the type parameters is over, and when the impl is converted every
\* associated constant, associated type and method has been converted and
\* registered.
C33_UnusedDoesNotBlock ==
    /\ impl_step \in { "consts", "types", "methods", "lifetimes", "done" } =>
          (predicates[impl_def_id].some /\ nwrites["predicates"][impl_def_id] = 1)
    /\ impl_step = "done" => AllItemsConverted

\* An inherent impl on a type without parameters, with a constant and an
\* associated type that names 'a: T, U and 'a were reported, the predicates
\* are stored and both items are converted.
C33_Witness ==
    /\ impl_step = "done"
    /\ Cardinality(UnusedReports) = 3
    /\ predicates[impl_def_id].some
    /\ Len(impl_def.impl_items) = 2
    /\ impl_def.impl_items[1].k = "Type" /\ impl_def.impl_items[2].k = "Const"
    /\ ItemConversions(1) = 1 /\ ItemConversions(2) = 1

\* The duplicate-item diagnostics for the item at index i.
DuplicateReports(i) ==
    Cardinality({ n \in 1..Len(diags) : diags[n].code = "E0201" /\ diags[n].item = i })

\* Both items are associated types, or neither is.
SameClass(a, b) == (a.k = "Type") <=> (b.k = "Type")

\* An earlier item of the impl has the name and the class of the item at i.
HasEarlierNamesake(i) ==
    \E j \in 1..(i - 1) :
        /\ impl_def.impl_items[j].name = impl_def.impl_items[i].name
        /\ SameClass(impl_def.impl_items[j], impl_def.impl_items[i])

\* C34: once the first loop over the items is over, an item has one
\* duplicate-item diagnostic when an earlier item of the impl has its name and
\* its class (associated types are one class, constants and methods the
\* other) and none otherwise, so that a type and a value of one name are not
\* duplicates; no such diagnostic is emitted before that loop; when the impl
\* is converted, every item, duplicate or not, has been converted.
C34_DuplicateItems ==
    /\ impl_step \in { "none", "params", "predicates", "consts" } =>
          \A i \in 1..Len(impl_def.impl_items) : DuplicateReports(i) = 0
    /\ impl_step \in { "types", "methods", "lifetimes", "done" } =>
          \A i \in 1..Len(impl_def.impl_items) :
              DuplicateReports(i) = IF HasEarlierNamesake(i) THEN 1 ELSE 0
    /\ impl_step = "done" => AllItemsConverted

\* `const x` followed by `fn x`: the method is reported once, the constant is
\* not, and both are converted.
C34_Witness ==
    /\ impl_step = "done"
    /\ Len(impl_def.impl_items) = 2
    /\ impl_def.impl_items[1].k = "Const" /\ impl_def.impl_items[2].k = "Method"
    /\ impl_def.impl_items[1].name = impl_def.impl_items[2].name
    /\ DuplicateReports(1) = 0 /\ DuplicateReports(2) = 1
    /\ ItemConversions(1) = 1 /\ ItemConversions(2) = 1

\* The inherent-impl diagnostics for the item at index i.
InherentTypeReports(i) ==
    Cardinality({ n \in 1..Len(diags) : diags[n].code = "E0202" /\ diags[n].item = i })

\* C35: once the second loop over the items is over, each associated type of
\* an inherent impl has one diagnostic and has been converted and registered,
\* once; an associated type of an impl of a trait has no such diagnostic, and
\* neither has a constant or a method.
C35_InherentAssociatedType ==
    /\ \A i \in 1..Len(impl_def.impl_items) :
          InherentTypeReports(i) =
             IF /\ impl_step \in { "methods", "lifetimes", "done" }
                /\ impl_def.impl_items[i].k = "Type"
                /\ ~impl_def.trait_ref.some
             THEN 1 ELSE 0
    /\ impl_step \in { "methods", "lifetimes", "done" } =>
          \A i \in 1..Len(impl_def.impl_items) :
              impl_def.impl_items[i].k = "Type" =>
                 \E n \in 1..Len(convlog) :
                     /\ convlog[n] = [ c |-> impl_def_id, i |-> i, k |-> "Type" ]
                     /\ ItemConversions(i) = 1

\* An inherent impl with two associated types: two diagnostics, both types
\* registered.
C35_Witness ==
    /\ impl_step = "methods"
    /\ ~impl_def.trait_ref.some
    /\ Len(impl_def.impl_items) = 2
    /\ impl_def.impl_items[1].k = "Type" /\ impl_def.impl_items[2].k = "Type"
    /\ InherentTypeReports(1) = 1 /\ InherentTypeReports(2) = 1
    /\ Len(convlog) = 2

----------------------------------------------------------------------------
\* Properties of add_unsized_bound.

\* The relaxations of the bound list, in the order written.
Markers == SelectSeq(param_bounds, LAMBDA b : b.k = "Maybe")

\* The predicates returned have the builtin bound Sized.
SizedAdded ==
    \E n \in 1..Len(result_predicates.v) :
        result_predicates.v[n] = TraitPredicate(TyPath(param_id, 0), SizedTrait, 0)

\* How many times the diagnostic was emitted.
Emissions(d) == Cardinality({ n \in 1..Len(diags) : diags[n] = d })

\* What C36 says of the bound list and its result.
DefaultSizedLaw ==
    /\ sized_by_default = "No" => (~SizedAdded /\ Emissions(RelaxedNotDefault) = 0)
    /\ sized_by_default = "Yes" =>
          /\ Markers = << >> => SizedAdded
          /\ (Markers # << >> /\ Markers[1].id = SizedTrait) => ~SizedAdded
          /\ (Markers # << >> /\ Markers[1].id # SizedTrait) =>
                (SizedAdded /\ Emissions(RelaxedNotDefault) = 1)

\* C36 as stated: once compute_bounds has returned, the law holds of its
\* result.
C36_DefaultSized == result_predicates.some => DefaultSizedLaw

\* C36: once compute_bounds has returned, the law holds of its result when
\* the lang item Sized is defined; when it is not, the bound is not added
\* and no warning is emitted.
C36_DefaultSizedWithLangItem ==
    result_predicates.some =>
       IF "sized" \in lang_items THEN DefaultSizedLaw
       ELSE ~SizedAdded /\ Emissions(RelaxedNotDefault) = 0

\* `T: ?Tr` for a type parameter, Tr not Sized: the warning, and Sized added.
C36_Witness ==
    /\ result_predicates.some
    /\ sized_by_default = "Yes" /\ "sized" \in lang_items
    /\ param_bounds = << MaybeTraitBound(1) >>
    /\ SizedAdded
    /\ diags = << RelaxedNotDefault >>

\* C37: once add_unsized_bound has run on a bound list with n >= 2
\* relaxations, the error of more than one relaxed bound was emitted n - 1
\* times, and Sized was added or not as the first relaxation alone decides.
C37_MoreThanOneRelaxed ==
    (result_predicates.some /\ sized_by_default = "Yes" /\ Len(Markers) >= 2) =>
       /\ Emissions(MoreThanOneRelaxed) = Len(Markers) - 1
       /\ SizedAdded <=> ("sized" \in lang_items /\ Markers[1].id # SizedTrait)

\* `T: ?Sized + ?Tr + ?Tr`: two errors, and Sized is not added.
C37_Witness ==
    /\ result_predicates.some
    /\ sized_by_default = "Yes" /\ "sized" \in lang_items
    /\ param_bounds = << MaybeTraitBound(SizedTrait), MaybeTraitBound(1), MaybeTraitBound(1) >>
    /\ ~SizedAdded
    /\ diags = << MoreThanOneRelaxed, MoreThanOneRelaxed >>

----------------------------------------------------------------------------
\* Properties of the conversion of a type alias.

\* The bounds written on the type parameters of the alias, of the kinds K.
AliasBoundsOfKind(K) ==
    { << i, j >> \in (1..MaxParams) \X (1..MaxBounds) :
        /\ i <= Len(ast_generics.ty_params)
        /\ j <= Len(ast_generics.ty_params[i].bounds)
        /\ ast_generics.ty_params[i].bounds[j].k \in K }

----------------------------------------------------------------------------
\* Properties of ty_generics.

\* The definitions of the list carry the space and their positions from 0.
Contiguous(defs, space) ==
    \A i \in 1..Len(defs) : defs[i].index = i - 1 /\ defs[i].space = space

\* C39: the generics returned for a fn or method have the Self-space and
\* Type-space lists of the container, types and regions, unchanged; the
\* Fn-space lists hold the base's own followed by one definition for each
\* type parameter and each early-bound lifetime of the fn; in every space
\* the definitions carry their positions, from 0, as index.
C39_GenericsSpaces ==
    result_generics.some =>
       LET r == result_generics.v
       IN /\ \A sp \in { "SelfSpace", "TypeSpace" } :
                /\ r.types[sp] = base_generics.types[sp]
                /\ r.regions[sp] = base_generics.regions[sp]
          /\ Len(r.types["FnSpace"]) = Len(ast_generics.ty_params)
          /\ Len(r.regions["FnSpace"]) =
                Cardinality({ i \in 1..Len(ast_generics.lifetimes) :
                                ast_generics.lifetimes[i].early })
          /\ \A sp \in ParamSpaces :
                Contiguous(r.types[sp], sp) /\ Contiguous(r.regions[sp], sp)

\* A method with a late-bound and an early-bound lifetime and two type
\* parameters, in a trait with a lifetime and a type parameter.
C39_Witness ==
    /\ result_generics.some
    /\ Len(base_generics.types["SelfSpace"]) = 1
    /\ Len(base_generics.types["TypeSpace"]) = 1
    /\ Len(base_generics.regions["TypeSpace"]) = 1
    /\ Len(ast_generics.lifetimes) = 2
    /\ ~ast_generics.lifetimes[1].early /\ ast_generics.lifetimes[2].early
    /\ result_generics.v.regions["FnSpace"] =
          << RegionParameterDef("FnSpace", 0, << "fn", 2 >>) >>
    /\ Len(result_generics.v.types["FnSpace"]) = 2
    /\ result_generics.v.types["TypeSpace"] = base_generics.types["TypeSpace"]

----------------------------------------------------------------------------
\* Properties of the entry points of the CompileController.

CallbackSkipped(p) ==
    p = "after_llvm" /\ err_count > 0 /\ ~control[p].run_callback_on_error

====
